---- MODULE Spec2Model ----
(***************************************************************************)
(* State-machine model of the indexing core of the ai-assistant            *)
(* repository: FileIndex and FileIndexBuilder (src/file_index.py) and      *)
(* BatchProcessor / FileProcessingJob (src/file_batch_processor.py), with  *)
(* the extraction routines of src/file_handler.py they call.               *)
(*                                                                         *)
(* The specifications share the variables:                                 *)
(*   SpecIndex    the FileIndex API driven directly on three files that    *)
(*                the application or another process may delete;           *)
(*   SpecStale    add_file / remove_file / file_needs_update on one file   *)
(*                that is rewritten, touched, chmod-ed and deleted;        *)
(*   SpecBatch    one BatchProcessor.process_directory run with worker     *)
(*                threads, the collecting main thread and a get_progress   *)
(*                reader (SpecBatchFair adds the pool's fairness);         *)
(*   SpecBuilder  FileIndexBuilder.index_directory runs (SpecRescan,        *)
(*                SpecRefresh and SpecMissing add deleted files, rewritten *)
(*                files and a missing directory);                          *)
(*   SpecConcurrent, SpecLoad  FileIndex under concurrent calls and        *)
(*                across restarts;                                         *)
(*   SpecRetriever  add_document / retrieve on a KeywordRetriever          *)
(*                (src/retrieval_system.py);                               *)
(*   SpecSnippet  one AIAssistant._find_relevant_snippet call;             *)
(*   SpecAssistant  AIAssistant._background_indexing against queries       *)
(*                (src/app.py), SpecUpload against handle_file_upload;     *)
(*   SpecReindex, SpecConstruct  add_document with reused ids and the      *)
(*                constructor of KeywordRetriever;                         *)
(*   SpecChunk    one DocumentProcessor.chunk_document call                *)
(*                (src/document_processor.py).                             *)
(***************************************************************************)
EXTENDS Integers, Sequences, FiniteSets, TLC

(***************************************************************************)
(* Bounds of the model.                                                    *)
(***************************************************************************)
\* file contents are 0..MaxBytes; content 0 is bytes the parsers reject
MaxBytes == 1
\* number of file-system events (write, touch, chmod, delete) per behaviour
MaxEdits == 2
\* largest worker pool tried
MaxWorkers == 2
\* failing writes of the index file per behaviour of SpecBuilder
MaxFaults == 1
\* documents added to the retriever per behaviour
MaxDocs == 3
\* length of the content given to _find_relevant_snippet
MaxLen == 4
\* length of the text given to chunk_document
MaxText == 3
\* chunks a chunk_document call is followed for
MaxChunks == 4

(***************************************************************************)
(* The directory tree.  Paths are strings; os.path functions are tables.   *)
(***************************************************************************)
Files == {"/d/a.txt", "/d/b.pdf", "/d/c.json", "/d/s/a.txt"}

\* relative spellings of the same files (the working directory is "/")
RelFiles == {"d/a.txt", "d/b.pdf", "d/c.json", "d/s/a.txt"}

Dirs == {"/d", "/d/s"}

TempDir == "data/temp_index"

\* order in which os.walk("/d") yields the files (top-down)
WalkOrder == <<"/d/a.txt", "/d/b.pdf", "/d/c.json", "/d/s/a.txt">>

abspath(p) ==
  CASE p = "d/a.txt"   -> "/d/a.txt"
    [] p = "d/b.pdf"   -> "/d/b.pdf"
    [] p = "d/c.json"   -> "/d/c.json"
    [] p = "d/s/a.txt" -> "/d/s/a.txt"
    [] p = "d"         -> "/d"
    [] p = "d/s"       -> "/d/s"
    [] OTHER           -> p

dirname(p) ==
  CASE p = "/d/a.txt"   -> "/d"
    [] p = "/d/b.pdf"   -> "/d"
    [] p = "/d/c.json"  -> "/d"
    [] p = "/d/s/a.txt" -> "/d/s"
    [] p = "d/a.txt"    -> "d"
    [] p = "d/b.pdf"    -> "d"
    [] p = "d/c.json"   -> "d"
    [] p = "d/s/a.txt"  -> "d/s"

basename(p) ==
  CASE p \in {"/d/a.txt", "/d/s/a.txt", "d/a.txt", "d/s/a.txt"} -> "a.txt"
    [] p \in {"/d/b.pdf", "d/b.pdf"}                            -> "b.pdf"
    [] p \in {"/d/c.json", "d/c.json"}                          -> "c.json"

Names == {"a.txt", "b.pdf", "c.json"}

\* Path(filename).suffix.lower()
suffix(name) ==
  CASE name = "a.txt" -> ".txt"
    [] name = "b.pdf" -> ".pdf"
    [] name = "c.json" -> ".json"

(***************************************************************************)
(* Files on disk.                                                          *)
(***************************************************************************)
Bytes == 0..MaxBytes

NoFile == [exists |-> FALSE, bytes |-> 0, mtime |-> 0, readable |-> FALSE]

VARIABLES
  disk,        \* path -> file state [exists, bytes, mtime, readable]
  edits,       \* file-system events so far
  files,       \* self.index["files"]: abs path -> FileRecord
  directories, \* self.index["directories"]: directory -> list of abs paths
  persisted,   \* content of the index file
  call,        \* the FileIndex call in progress or last finished
  added,       \* history: abs path -> file state its record was hashed from
  temp,        \* data/temp_index: filename -> symlink or copy
  pdf_available,  \* DocumentHandler.pdf_available
  max_workers,    \* BatchProcessor.max_workers
  base_directory, \* base_directory of the two handlers of the processor
  jobs,        \* BatchProcessor.jobs: list of FileProcessingJob
  pd,          \* process_directory: position of the collecting thread
  cb_calls,    \* history: job -> number of callback invocations
  results,     \* the results list of process_directory
  gp,          \* get_progress: position and counts read so far
  progress,    \* what get_progress returned last
  symlinks,    \* os.symlink works on this platform
  loaded,      \* what self.index is: "snapshot", "other", "none" (no object)
  prior,       \* history: the index the process held before it restarted
  ix,          \* index_directory: position and local variables
  runs,        \* history: the index_directory run that returned last
  extracted,   \* history: files whose content a job has extracted
  faults,      \* failed writes of the index file so far
  documents,   \* KeywordRetriever.documents: list of documents
  index,       \* KeywordRetriever.index: token -> doc_id -> count
  retrieved,   \* the retrieve call that finished last
  indexing,    \* AIAssistant._background_indexing: position of the thread
  snippet,     \* the _find_relevant_snippet call that finished last
  ctor,        \* KeywordRetriever.__init__: position of its loop
  chunking,    \* chunk_document: its arguments and locals
  upload       \* AIAssistant.handle_file_upload: position of its thread

\* the state of the retriever and of the application around it
\* the calls that run beside the retriever and the refresh thread
ovars == <<snippet, ctor, chunking, upload>>

rvars == <<documents, index, retrieved, indexing, ovars>>

ivars == <<files, directories, persisted, call, added>>
xvars == <<symlinks, loaded, prior, rvars, ix, runs, extracted, faults>>
bvars == <<temp, pdf_available, max_workers, base_directory, jobs, pd,
           cb_calls, results, gp, progress, symlinks, loaded, prior, rvars, ix, runs, extracted,
           faults>>
vars == <<disk, edits, files, directories, persisted, call, added,
          temp, pdf_available, max_workers, base_directory, jobs, pd,
          cb_calls, results, gp, progress, symlinks, loaded, prior, rvars, ix, runs, extracted,
          faults>>

(***************************************************************************)
(* FileIndex (src/file_index.py)                                           *)
(***************************************************************************)
NoHash == [kind |-> "none", v |-> 0]

\* hashlib.md5(file_data).hexdigest(): a digest of the bytes, never equal
\* to a str(mtime); distinct for the distinct contents of the model
md5(bytes) == [kind |-> "md5", v |-> bytes]

\* mutant: the modification time stands in for the content
_get_file_hash_mtime(st) ==
  IF ~st.exists THEN NoHash ELSE [kind |-> "mtime", v |-> st.mtime]

\* FileIndex._get_file_hash; the caller handles NoHash as the raise of
\* os.path.getmtime on a missing file
_get_file_hash(st) ==
  IF ~st.exists THEN NoHash
  ELSE IF st.readable THEN md5(st.bytes)
  ELSE [kind |-> "mtime", v |-> st.mtime]

\* FileIndex._create_empty_index
_create_empty_index == [files |-> <<>>, directories |-> <<>>]

\* the snapshot json.dump writes
Snapshot(fs, ds) == [state |-> "ok", files |-> fs, directories |-> ds]

NoIndexFile == [state |-> "missing", files |-> <<>>, directories |-> <<>>]
PartialIndexFile == [state |-> "partial", files |-> <<>>, directories |-> <<>>]

\* mutant: the directories map is not written
_save_index_nodirs(ok, fs, ds, old) ==
  IF ok THEN {Snapshot(fs, <<>>)} ELSE {old, PartialIndexFile}

\* FileIndex._save_index: the index file after the write.  A failing write
\* raises before open() truncated the file, or after.
_save_index(ok, fs, ds, old) ==
  IF ok THEN {Snapshot(fs, ds)} ELSE {old, PartialIndexFile}

\* dict.get(key, default)
Get(d, key, default) == IF key \in DOMAIN d THEN d[key] ELSE default

\* the file_info dictionaries passed to add_file
FileInfos ==
  { <<>>,
    [type |-> "text"],
    [type |-> "pdf", metadata |-> <<"/d", "b.pdf">>] }

\* the file_info the callers of this repository pass for a path: the
\* payload of BatchProcessor._process_file, with metadata for pdf only
InfoFor(abs_path) ==
  IF suffix(basename(abs_path)) = ".pdf"
  THEN [type |-> "pdf", metadata |-> <<"/d", "b.pdf">>]
  ELSE IF suffix(basename(abs_path)) = ".txt" THEN [type |-> "text"]
  ELSE [type |-> "json"]

\* the FileRecord add_file builds
FileRecord(abs_path, file_hash, file_info) ==
  [ path     |-> abs_path,
    filename |-> basename(abs_path),
    hash     |-> file_hash,
    type     |-> Get(file_info, "type", "unknown"),
    metadata |-> Get(file_info, "metadata", <<>>) ]

Contains(list, x) == \E i \in 1..Len(list) : list[i] = x

\* list.remove(x): drops the first occurrence
ListRemove(list, x) ==
  LET i == CHOOSE k \in 1..Len(list) :
             list[k] = x /\ \A m \in 1..(k-1) : list[m] # x
  IN  [k \in 1..(Len(list)-1) |-> IF k < i THEN list[k] ELSE list[k+1]]

\* d[k] = v on a dict
Put(d, k, v) == [x \in DOMAIN d \cup {k} |-> IF x = k THEN v ELSE d[x]]

\* del d[k]
Del(d, k) == [x \in DOMAIN d \ {k} |-> d[x]]

Idle == [op |-> "none", path |-> "", st |-> NoFile, info |-> <<>>,
         outcome |-> "none"]

Finished(op, abs_path, outcome) ==
  [op |-> op, path |-> abs_path, st |-> NoFile, info |-> <<>>,
   outcome |-> outcome]

Quiet == call.outcome # "running"

\* FileIndex.file_needs_update: "raise" when the hash of a recorded file
\* cannot be computed
file_needs_update(fs, dsk, file_path) ==
  LET abs_path == abspath(file_path) IN
  IF abs_path \notin DOMAIN fs THEN "true"
  ELSE IF ~dsk[abs_path].exists THEN "raise"
  ELSE IF _get_file_hash(dsk[abs_path]) # fs[abs_path].hash THEN "true"
  ELSE "false"

\* add_file, lines 178-188: the directories map with the path registered
AddToDirectory(ds, abs_path) ==
  LET directory == dirname(abs_path)
      ds1 == IF directory \in DOMAIN ds THEN ds
             ELSE Put(ds, directory, <<>>)
  IN  IF Contains(ds1[directory], abs_path) THEN ds1
      ELSE [ds1 EXCEPT ![directory] = Append(@, abs_path)]

\* add_file, lines 174-188: hash the file, register it with its directory
AddFileBegin(file_path, file_info) ==
  LET abs_path  == abspath(file_path)
      file_hash == _get_file_hash(disk[abs_path])
  IN
  /\ Quiet
  /\ IF file_hash = NoHash
     THEN /\ call' = Finished("add_file", abs_path, "raised")
          /\ UNCHANGED <<files, directories, persisted, added>>
     ELSE /\ directories' = AddToDirectory(directories, abs_path)
          /\ call' = [op |-> "add_file", path |-> abs_path,
                      st |-> disk[abs_path], info |-> file_info,
                      outcome |-> "running"]
          /\ UNCHANGED <<files, persisted, added>>
  /\ UNCHANGED <<disk, edits>>
  /\ UNCHANGED bvars

\* add_file, lines 190-202: build the record (os.path.getsize raises when
\* the file is gone by now), store it, save the index
AddFileEnd(ok) ==
  /\ call.op = "add_file" /\ call.outcome = "running"
  /\ IF ~disk[call.path].exists
     THEN /\ call' = Finished("add_file", call.path, "raised")
          /\ UNCHANGED <<files, directories, persisted, added>>
     ELSE LET fs == Put(files, call.path,
                        FileRecord(call.path, _get_file_hash(call.st),
                                   call.info))
          IN /\ files' = fs
             /\ persisted' \in _save_index(ok, fs, directories, persisted)
             /\ call' = Finished("add_file", call.path,
                                 IF ok THEN "returned" ELSE "raised")
             /\ added' = Put(added, call.path, call.st)
             /\ UNCHANGED directories
  /\ UNCHANGED <<disk, edits>>
  /\ UNCHANGED bvars

\* FileIndex.remove_file
RemoveFile(file_path, ok) ==
  LET abs_path  == abspath(file_path)
      directory == dirname(abs_path)
      fs == IF abs_path \in DOMAIN files THEN Del(files, abs_path) ELSE files
      ds == IF /\ directory \in DOMAIN directories
               /\ Contains(directories[directory], abs_path)
            THEN [directories EXCEPT ![directory] = ListRemove(@, abs_path)]
            ELSE directories
  IN
  /\ Quiet
  /\ files' = fs
  /\ directories' = ds
  /\ persisted' \in _save_index(ok, fs, ds, persisted)
  /\ call' = Finished("remove_file", abs_path,
                      IF ok THEN "returned" ELSE "raised")
  /\ UNCHANGED <<disk, edits, added>>
  /\ UNCHANGED bvars

\* FileIndex.clear_index
ClearIndex(ok) ==
  /\ Quiet
  /\ files' = _create_empty_index.files
  /\ directories' = _create_empty_index.directories
  /\ persisted' \in _save_index(ok, files', directories', persisted)
  /\ call' = Finished("clear_index", "",
                      IF ok THEN "returned" ELSE "raised")
  /\ UNCHANGED <<disk, edits, added>>
  /\ UNCHANGED bvars

(***************************************************************************)
(* The file system, changed by the application (uploads, deletions) and    *)
(* by other processes.                                                     *)
(***************************************************************************)
Event == IF call.outcome = "running" THEN call
         ELSE Finished("env", "", "none")

WriteFile(f, b) ==
  /\ edits < MaxEdits
  /\ b # disk[f].bytes \/ ~disk[f].exists
  /\ disk' = [disk EXCEPT ![f] = [exists |-> TRUE, bytes |-> b,
                                  mtime |-> edits + 1, readable |-> TRUE]]
  /\ edits' = edits + 1
  /\ call' = Event
  /\ UNCHANGED <<files, directories, persisted, added>>
  /\ UNCHANGED bvars

TouchFile(f) ==
  /\ edits < MaxEdits
  /\ disk[f].exists
  /\ disk' = [disk EXCEPT ![f].mtime = edits + 1]
  /\ edits' = edits + 1
  /\ call' = Event
  /\ UNCHANGED <<files, directories, persisted, added>>
  /\ UNCHANGED bvars

ChmodFile(f) ==
  /\ edits < MaxEdits
  /\ disk[f].exists
  /\ disk' = [disk EXCEPT ![f].readable = ~@]
  /\ edits' = edits + 1
  /\ call' = Event
  /\ UNCHANGED <<files, directories, persisted, added>>
  /\ UNCHANGED bvars

DeleteFile(f) ==
  /\ edits < MaxEdits
  /\ disk[f].exists
  /\ disk' = [disk EXCEPT ![f] = NoFile]
  /\ edits' = edits + 1
  /\ call' = Event
  /\ UNCHANGED <<files, directories, persisted, added>>
  /\ UNCHANGED bvars

\* the sample tree, and the index a new FileIndex holds when the index
\* file is missing
InitDisk ==
  /\ disk = [f \in Files |-> [exists |-> TRUE, bytes |-> 1, mtime |-> 0,
                               readable |-> TRUE]]
  /\ edits = 0

InitFileIndex ==
  /\ files = _create_empty_index.files
  /\ directories = _create_empty_index.directories
  /\ persisted = NoIndexFile
  /\ call = Idle
  /\ added = <<>>
  /\ loaded = "snapshot"
  /\ prior = [files |-> <<>>, directories |-> <<>>, saved |-> FALSE]

(***************************************************************************)
(* KeywordRetriever (src/retrieval_system.py)                              *)
(***************************************************************************)
\* A text is a sequence of pieces: words, written in some case, and the
\* characters between them.
Separators == {" ", "-"}

\* str.lower on a piece
lower(piece) ==
  CASE piece = "Alpha" -> "alpha"
    [] piece = "Gamma" -> "gamma"
    [] OTHER           -> piece

\* _tokenize: re.findall(r'\w+', text.lower())
_tokenize(text) ==
  SelectSeq([k \in 1..Len(text) |-> lower(text[k])],
            LAMBDA piece : piece \notin Separators)

\* the ids callers give to their documents
ExplicitIds == {1, 2, 3}

\* the contents of the documents: 'alpha beta', 'beta gamma' and
\* 'alpha alpha gamma'
Contents == {<<"alpha", " ", "beta">>,
             <<"beta", " ", "gamma">>,
             <<"alpha", " ", "alpha", " ", "gamma">>}

\* lines 61-63 for one token: self.index[token][doc_id] counts one more;
\* a dict keeps its keys in the order they were first set
CountToken(postings, doc_id) ==
  IF \E k \in 1..Len(postings) : postings[k].doc_id = doc_id
  THEN [k \in 1..Len(postings) |->
          IF postings[k].doc_id = doc_id
          THEN [postings[k] EXCEPT !.count = @ + 1]
          ELSE postings[k]]
  ELSE Append(postings, [doc_id |-> doc_id, count |-> 1])

\* lines 59-63: the tokens of the content counted under doc_id
RECURSIVE IndexTokens(_, _, _)
IndexTokens(idx, tokens, doc_id) ==
  IF tokens = <<>> THEN idx
  ELSE LET token == Head(tokens)
           postings == IF token \in DOMAIN idx THEN idx[token] ELSE <<>>
       IN  IndexTokens(Put(idx, token, CountToken(postings, doc_id)),
                       Tail(tokens), doc_id)

\* line 41: document.get('id', len(self.documents))
NewDocId(docs, document) == Get(document, "id", Len(docs))

\* add_document, lines 41-45: the document as stored; "given" is history,
\* whether the caller supplied the id
StoredDocument(docs, document) ==
  [id |-> NewDocId(docs, document), content |-> document.content,
   given |-> "id" \in DOMAIN document]

\* 10^6 * ln(n), for the corpus sizes of the model
Ln == <<0, 693147, 1098612, 1386294, 1609438, 1791759>>

\* mutant: a smoothed logarithm, ln((n + 1) / d)
math_log_smoothed(n, d) == Ln[n + 1] - Ln[d]

\* math.log(n / d) in millionths; math.log(0.0) raises ValueError
math_log(n, d) == Ln[n] - Ln[d]

\* _calculate_score, lines 72-80
RECURSIVE _calculate_score(_, _, _, _)
_calculate_score(docs, idx, query_tokens, doc_id) ==
  IF query_tokens = <<>> THEN 0
  ELSE LET token == Head(query_tokens)
           rest  == _calculate_score(docs, idx, Tail(query_tokens), doc_id)
       IN  IF /\ token \in DOMAIN idx
              /\ \E k \in 1..Len(idx[token]) : idx[token][k].doc_id = doc_id
           THEN LET k  == CHOOSE k \in 1..Len(idx[token]) :
                             idx[token][k].doc_id = doc_id
                    tf  == idx[token][k].count
                    idf == math_log(Len(docs), Len(idx[token]))
                IN  tf * idf + rest
           ELSE rest

\* lines 91-93 for one document of self.index[token]: scores is the dict
\* in the order its keys were set
AddScore(scores, docs, idx, token, doc_id) ==
  LET s == _calculate_score(docs, idx, <<token>>, doc_id) IN
  IF \E k \in 1..Len(scores) : scores[k].doc_id = doc_id
  THEN [k \in 1..Len(scores) |->
          IF scores[k].doc_id = doc_id
          THEN [scores[k] EXCEPT !.score = @ + s]
          ELSE scores[k]]
  ELSE Append(scores, [doc_id |-> doc_id, score |-> s])

\* lines 90-93: the documents of one token, in the order of its postings
RECURSIVE ScoreToken(_, _, _, _, _)
ScoreToken(scores, docs, idx, token, k) ==
  IF k > Len(idx[token]) THEN scores
  ELSE ScoreToken(AddScore(scores, docs, idx, token, idx[token][k].doc_id),
                  docs, idx, token, k + 1)

\* lines 87-93
RECURSIVE Scores(_, _, _, _)
Scores(scores, docs, idx, query_tokens) ==
  IF query_tokens = <<>> THEN scores
  ELSE LET token == Head(query_tokens)
           next  == IF token \in DOMAIN idx
                    THEN ScoreToken(scores, docs, idx, token, 1)
                    ELSE scores
       IN  Scores(next, docs, idx, Tail(query_tokens))

\* sorted(..., reverse=True) is stable: an entry goes behind the entries
\* of equal score that came before it
RECURSIVE InsertByScore(_, _)
InsertByScore(sorted, entry) ==
  IF sorted = <<>> THEN <<entry>>
  ELSE IF Head(sorted).score >= entry.score
  THEN <<Head(sorted)>> \o InsertByScore(Tail(sorted), entry)
  ELSE <<entry>> \o sorted

\* line 96: sorted(scores.keys(), key=lambda x: scores[x], reverse=True)
SortByScore(scores) ==
  LET RECURSIVE Desc(_, _)
      Desc(sorted, k) ==
        IF k > Len(scores) THEN sorted
        ELSE Desc(InsertByScore(sorted, scores[k]), k + 1)
  IN  Desc(<<>>, 1)

\* line 96: [:top_k], for top_k >= 0
TopK(sorted, top_k) ==
  SubSeq(sorted, 1, IF top_k < Len(sorted) THEN top_k ELSE Len(sorted))

\* line 100: {doc.get('id'): doc for doc in self.documents} keeps, for an
\* id, the document stored last; 0 when no document has the id
id_to_doc(docs, doc_id) ==
  LET hits == {k \in 1..Len(docs) : docs[k].id = doc_id} IN
  IF hits = {} THEN 0 ELSE CHOOSE k \in hits : \A j \in hits : j <= k

\* lines 102-108: the copies of the documents, each with its score;
\* "at" is history, the place of the document in self.documents
RECURSIVE Results(_, _)
Results(docs, result_ids) ==
  IF result_ids = <<>> THEN <<>>
  ELSE LET e == Head(result_ids)
           k == id_to_doc(docs, e.doc_id)
       IN  (IF k = 0 THEN <<>>
            ELSE <<[id |-> e.doc_id, content |-> docs[k].content,
                    relevance_score |-> e.score, at |-> k]>>)
           \o Results(docs, Tail(result_ids))

\* mutant: a token is looked up without the test of line 89, and a token
\* no document holds raises KeyError
retrieve_raises_unchecked(docs, idx, query_tokens) ==
  \E k \in 1..Len(query_tokens) :
     \/ query_tokens[k] \notin DOMAIN idx
     \/ Len(docs) = 0

\* retrieve raises when _calculate_score divides an empty self.documents
\* by the documents of a token (line 78): math.log(0.0)
retrieve_raises(docs, idx, query_tokens) ==
  \E k \in 1..Len(query_tokens) :
     /\ query_tokens[k] \in DOMAIN idx
     /\ idx[query_tokens[k]] # <<>>
     /\ Len(docs) = 0

\* retrieve, lines 84-110
retrieve(docs, idx, query, top_k) ==
  LET query_tokens == _tokenize(query) IN
  IF retrieve_raises(docs, idx, query_tokens)
  THEN [outcome |-> "raised", results |-> <<>>]
  ELSE [outcome |-> "returned",
        results |-> Results(docs,
                      TopK(SortByScore(Scores(<<>>, docs, idx, query_tokens)),
                           top_k))]

\* no retrieve call yet
NoRetrieve ==
  [op |-> "none", query |-> <<>>, top_k |-> 0, outcome |-> "none",
   results |-> <<>>, during |-> "idle"]

\* KeywordRetriever() as AIAssistant.__init__ makes it
InitRetriever ==
  /\ documents = <<>>
  /\ index = <<>>
  /\ retrieved = NoRetrieve

(***************************************************************************)
(* AIAssistant._find_relevant_snippet (src/app.py)                         *)
(* A string is the sequence of its characters; positions count from 0 as   *)
(* in the code.                                                            *)
(***************************************************************************)
Chars == {"a", "b", "A", " ", "\n"}

\* the lists of query terms: query.lower().split() gives words in lower
\* case without white space
TermLists == {<< <<"a">> >>, << <<"a", "b">> >>, << <<"a">>, <<"b">> >>}

\* the radius of the window (50 when the caller gives none)
ContextSizes == {1, 2}

\* content_lower[p : p + len(term)] == term
OccursAt(text, term, p) ==
  /\ p + Len(term) <= Len(text)
  /\ \A k \in 1..Len(term) : text[p + k] = term[k]

\* str.replace('\n', ' ')
ReplaceNewlines(text) ==
  [k \in 1..Len(text) |-> IF text[k] = "\n" THEN " " ELSE text[k]]

\* line 1037: content.replace('\n', ' ').lower()
ContentLower(content) ==
  LET flat == ReplaceNewlines(content) IN
  [k \in 1..Len(flat) |-> IF flat[k] = "A" THEN "a" ELSE flat[k]]

\* lines 1040-1045: one (pos, len(term)) for every occurrence of every term
\* of the list; "term" tells the entries of equal terms apart
Occurrences(content_lower, query_terms) ==
  {[pos |-> p, length |-> Len(query_terms[t]), term |-> t] :
     <<p, t>> \in {x \in (0..Len(content_lower)) \X (1..Len(query_terms)) :
                     OccursAt(content_lower, query_terms[x[2]], x[1])}}

\* line 1051: term_positions.sort(), by position and then by length
RECURSIVE SortPositions(_)
SortPositions(S) ==
  IF S = {} THEN <<>>
  ELSE LET first == CHOOSE m \in S : \A x \in S :
                      \/ m.pos < x.pos
                      \/ m.pos = x.pos /\ m.length < x.length
                      \/ m.pos = x.pos /\ m.length = x.length
                                       /\ m.term <= x.term
       IN  <<first>> \o SortPositions(S \ {first})

\* lines 1058-1059: the window around the hit
WindowStart(hit, context_size) ==
  IF hit.pos - context_size > 0 THEN hit.pos - context_size ELSE 0

WindowEnd(content, hit, context_size) ==
  IF hit.pos + hit.length + context_size < Len(content)
  THEN hit.pos + hit.length + context_size
  ELSE Len(content)

\* lines 1062-1065: the hits that start in the window of hit i
TermsInSnippet(content, term_positions, i, context_size) ==
  1 + Cardinality({j \in 1..Len(term_positions) :
                     /\ i # j
                     /\ WindowStart(term_positions[i], context_size)
                          <= term_positions[j].pos
                     /\ term_positions[j].pos
                          < WindowEnd(content, term_positions[i],
                                      context_size)})

\* lines 1054-1069: the first window with the greatest count; "hit" is
\* history, the hit whose window it is
RECURSIVE BestWindow(_, _, _, _, _)
BestWindow(content, term_positions, context_size, i, best) ==
  IF i > Len(term_positions) THEN best
  ELSE LET n == TermsInSnippet(content, term_positions, i, context_size) IN
       BestWindow(content, term_positions, context_size, i + 1,
                  IF n > best.best_score
                  THEN [best_score |-> n,
                        best_start |-> WindowStart(term_positions[i],
                                                   context_size),
                        hit |-> i]
                  ELSE best)

\* str.strip()
RECURSIVE strip(_)
strip(text) ==
  IF text = <<>> THEN text
  ELSE IF Head(text) \in {" ", "\n"} THEN strip(Tail(text))
  ELSE IF text[Len(text)] \in {" ", "\n"}
  THEN strip(SubSeq(text, 1, Len(text) - 1))
  ELSE text

\* the return value "" of lines 1034 and 1048
NoSnippetFound ==
  [text |-> <<>>, start |-> 0, end |-> 0, best_score |-> 0,
   term_positions |-> <<>>, hit |-> 0]

\* line 1072: end = min(len(content), best_start + context_size * 2)
SnippetEnd(content, term_positions, best, context_size) ==
  IF best.best_start + context_size * 2 < Len(content)
  THEN best.best_start + context_size * 2
  ELSE Len(content)

\* _find_relevant_snippet, lines 1033-1075: the text returned, with the
\* slice of content it was cut from and the hits found (history)
_find_relevant_snippet(content, query_terms, context_size) ==
  IF content = <<>> \/ query_terms = <<>> THEN NoSnippetFound
  ELSE
  LET term_positions ==
        SortPositions(Occurrences(ContentLower(content), query_terms))
  IN
  IF term_positions = <<>> THEN NoSnippetFound
  ELSE
  LET best == BestWindow(content, term_positions, context_size, 1,
                         [best_score |-> 0, best_start |-> 0, hit |-> 0])
      end == SnippetEnd(content, term_positions, best, context_size)
  IN  [text |-> strip(ReplaceNewlines(
                        SubSeq(content, best.best_start + 1, end))),
       start |-> best.best_start, end |-> end,
       best_score |-> best.best_score,
       term_positions |-> term_positions, hit |-> best.hit]

\* no _find_relevant_snippet call yet
NoSnippet ==
  [content |-> <<>>, query_terms |-> <<>>, context_size |-> 0,
   called |-> FALSE, result |-> NoSnippetFound]

(***************************************************************************)
(* AIAssistant (src/app.py): the retriever, and the thread of              *)
(* _background_indexing                                                    *)
(***************************************************************************)
\* no refresh is running (lines 70-72)
\* no constructor, chunk_document or upload call is running
CtorIdle == [pc |-> "idle", given |-> 0, i |-> 0]

ChunkingIdle == [pc |-> "idle", text |-> <<>>, chunk_size |-> 0,
                 overlap |-> 0, start |-> 0, chunks |-> <<>>, more |-> 0]

UploadIdle == [pc |-> "idle", file_path |-> "", run |-> [pc |-> "idle"]]

InitCalls ==
  /\ ctor = CtorIdle
  /\ chunking = ChunkingIdle
  /\ upload = UploadIdle

IndexingIdle ==
  [pc |-> "idle", in_progress |-> FALSE, force_update |-> FALSE, todo |-> {}]

\* AIAssistant with an empty retriever and no refresh running
InitAssistant ==
  /\ InitRetriever
  /\ indexing = IndexingIdle
  /\ snippet = NoSnippet
  /\ InitCalls

(***************************************************************************)
(* BatchProcessor and FileProcessingJob (src/file_batch_processor.py)      *)
(***************************************************************************)
\* order in which os.listdir yields the names of a directory
ListOrder == <<"a.txt", "b.pdf", "c.json">>

\* the file os.path.join(directory, filename) names, read through the
\* symlink or the copy when the directory is the staging directory
Resolve(directory, name, dsk, tmp) ==
  IF directory = TempDir
  THEN IF name \notin DOMAIN tmp THEN NoFile
       ELSE IF tmp[name].link THEN dsk[tmp[name].target]
       ELSE tmp[name].copy
  ELSE IF \E f \in Files : dirname(f) = directory /\ basename(f) = name
       THEN dsk[CHOOSE f \in Files :
                  dirname(f) = directory /\ basename(f) = name]
       ELSE NoFile

\* FileProcessor.get_file_type
get_file_type(filename) ==
  LET extension == suffix(filename) IN
  CASE extension = ".txt"  -> "text"
    [] extension = ".json" -> "json"
    [] extension = ".csv"  -> "csv"
    [] extension = ".pdf"  -> "pdf"
    [] extension = ".docx" -> "docx"
    [] OTHER               -> "unknown"

\* FileProcessingJob.__init__
FileProcessingJob(filename, file_type) ==
  [filename |-> filename, file_type |-> file_type, status |-> "pending",
   error |-> "", result |-> <<>>]

\* BatchProcessor._get_files_to_process: one entry per regular file
\* directly inside the directory
_get_files_to_process(directory, dsk, tmp) ==
  LET IsFile(name) == Resolve(directory, name, dsk, tmp).exists
      names == SelectSeq(ListOrder, IsFile)
  IN  [i \in 1..Len(names) |->
         FileProcessingJob(names[i], get_file_type(names[i]))]

\* extracted content: the text of the bytes, or a message in its place
Text(bytes) == [text |-> TRUE, v |-> bytes]
Message == [text |-> FALSE, v |-> 0]

\* TextFileHandler.read_text / read_json / read_csv: open() raises on a
\* missing or unreadable file, json.load on bytes that are not JSON
Readable(st) == st.exists /\ st.readable
Parses(st) == Readable(st) /\ st.bytes # 0

\* DocumentHandler.extract_text_from_pdf: every error becomes a message
extract_text_from_pdf(st) ==
  IF Parses(st) THEN Text(st.bytes) ELSE Message

\* mutant: no except clause, an error leaves the job where start() put it
_process_file_nocatch(job, st, directory) ==
  IF Readable(st) /\ job.file_type \in {"text", "csv"}
  THEN [job EXCEPT !.status = "completed",
                   !.result = [filename |-> job.filename,
                               content |-> Text(st.bytes),
                               type |-> job.file_type]]
  ELSE [job EXCEPT !.status = "processing"]

\* BatchProcessor._process_file from job.start() on: the job as it is when
\* the worker is done with it
_process_file(job, st, directory) ==
  LET filename  == job.filename
      file_type == job.file_type
      failed(msg) == [job EXCEPT !.status = "failed", !.error = msg]
      completed(result) ==
        [job EXCEPT !.status = "completed", !.result = result]
  IN
  CASE file_type = "text" ->
         IF Readable(st)
         THEN completed([filename |-> filename, content |-> Text(st.bytes),
                         type |-> "text"])
         ELSE failed("Error processing file")
    [] file_type = "json" ->
         IF Parses(st)
         THEN completed([filename |-> filename, content |-> Text(st.bytes),
                         type |-> "json"])
         ELSE failed("Error processing file")
    [] file_type = "csv" ->
         IF Readable(st)
         THEN completed([filename |-> filename, content |-> Text(st.bytes),
                         type |-> "csv"])
         ELSE failed("Error processing file")
    [] file_type = "pdf" /\ pdf_available ->
         \* get_document_metadata: os.stat raises on a missing file
         IF st.exists
         THEN completed([filename |-> filename,
                         content  |-> extract_text_from_pdf(st),
                         type     |-> "pdf",
                         metadata |-> <<directory, filename>>])
         ELSE failed("Error processing file")
    [] OTHER -> failed("Unsupported file type")

Terminal == {"completed", "failed"}

JobIds == 1..Len(jobs)

\* workers: the threads of the executor, each with the job it runs (0: none)
PdIdle == [pc |-> "idle", callback |-> FALSE, cur |-> 0, collected |-> {},
           workers |-> <<>>]

GpIdle == [pc |-> "idle", total |-> 0, completed |-> 0, failed |-> 0,
           processing |-> 0]

NoProgress == [total |-> 0, completed |-> 0, failed |-> 0, processing |-> 0,
               pending |-> 0, progress |-> <<0, 0>>]

\* sum(1 for job in self.jobs if job.status == status)
Count(js, status) ==
  Cardinality({i \in 1..Len(js) : js[i].status = status})

\* mutant: a thread takes a job while it still runs another
IdleWorkers_any(workers) == DOMAIN workers

\* ThreadPoolExecutor: the threads that wait on the work queue
IdleWorkers(workers) == {w \in DOMAIN workers : workers[w] = 0}

\* an idle thread of the pool takes the next queued job and runs
\* job.start(); the threads are interchangeable, the lowest idle one is taken
StartJob(i) ==
  /\ pd.pc # "idle"
  /\ i \in JobIds
  /\ jobs[i].status = "pending"
  /\ \A j \in 1..(i-1) : jobs[j].status # "pending"
  /\ \E w \in IdleWorkers(pd.workers) :
       /\ \A v \in IdleWorkers(pd.workers) : w <= v
       /\ pd' = [pd EXCEPT !.workers[w] = i]
  /\ jobs' = [jobs EXCEPT ![i].status = "processing"]
  /\ UNCHANGED <<temp, pdf_available, max_workers, base_directory,
                 cb_calls, results, gp, progress>>

\* the worker extracts the file and completes or fails the job
FinishJob(i) ==
  /\ i \in JobIds
  /\ jobs[i].status = "processing"
  /\ jobs' = [jobs EXCEPT ![i] =
                _process_file(jobs[i],
                              Resolve(base_directory, jobs[i].filename,
                                      disk, temp),
                              base_directory)]
  \* _process_file returned: the thread goes back to the work queue
  /\ pd' = [pd EXCEPT !.workers =
                [w \in DOMAIN @ |-> IF @[w] = i THEN 0 ELSE @[w]]]
  /\ UNCHANGED <<temp, pdf_available, max_workers, base_directory,
                 cb_calls, results, gp, progress>>

\* process_directory, lines 141-152: list the directory, create and submit
\* the jobs
StartRun(directory, callback, dsk, tmp) ==
  /\ base_directory' = directory
  /\ jobs' = _get_files_to_process(directory, dsk, tmp)
  /\ pd' = [pc |-> "collect", callback |-> callback, cur |-> 0,
            collected |-> {},
            workers |-> [w \in 1..max_workers |-> 0]]
  /\ cb_calls' = [i \in 1..Len(jobs') |-> 0]
  /\ results' = <<>>

\* a future is done once its job was completed or failed by the worker
Done(i) == i \in JobIds /\ jobs[i].status \in Terminal

\* process_directory, lines 155-163: as_completed yields a finished job;
\* its result is appended under the lock
TakeJob(i) ==
  /\ pd.pc = "collect"
  /\ Done(i) /\ i \notin pd.collected
  /\ jobs[i].status = "completed" /\ jobs[i].result # <<>> => gp.pc = "idle"
  /\ results' = IF jobs[i].status = "completed" /\ jobs[i].result # <<>>
                THEN Append(results, jobs[i].result) ELSE results
  /\ pd' = IF pd.callback
           THEN [pd EXCEPT !.pc = "callback", !.cur = i]
           ELSE [pd EXCEPT !.collected = @ \cup {i}]

\* process_directory, lines 165-173, after a callback that raises on its
\* first call (raises1) or also on its second (raises2)
AfterCallback(raises1, raises2) ==
  LET i == pd.cur IN
  /\ jobs' = IF raises1
             THEN [jobs EXCEPT ![i].status = "failed",
                               ![i].error = "callback error"]
             ELSE jobs
  /\ cb_calls' = [cb_calls EXCEPT ![i] = @ + (IF raises1 THEN 2 ELSE 1)]
  /\ pd' = IF raises1 /\ raises2
           THEN [pd EXCEPT !.pc = "unwind", !.cur = 0,
                           !.collected = @ \cup {i}]
           ELSE [pd EXCEPT !.pc = "collect", !.cur = 0,
                           !.collected = @ \cup {i}]

\* process_directory, line 175, or the exception of a callback leaving the
\* with block, which waits for the workers
EndRun ==
  /\ \/ pd.pc = "collect" /\ pd.collected = JobIds
     \/ pd.pc = "unwind" /\ \A i \in JobIds : Done(i)
  /\ pd' = [pd EXCEPT !.pc = IF pd.pc = "collect" THEN "returned"
                             ELSE "raised"]

\* get_progress when no job changes while it runs
get_progress(js) ==
  LET total     == Len(js)
      completed == Count(js, "completed")
      failed    == Count(js, "failed")
  IN  [total      |-> total,
       completed  |-> completed,
       failed     |-> failed,
       processing |-> Count(js, "processing"),
       pending    |-> Count(js, "pending"),
       progress   |-> IF total > 0 THEN <<completed + failed, total>>
                      ELSE <<1, 1>>]

\* get_progress, lines 179-180
GetProgressBegin ==
  /\ gp.pc = "idle"
  /\ gp' = [GpIdle EXCEPT !.pc = "completed", !.total = Len(jobs)]
  /\ progress' = NoProgress

\* get_progress, lines 181-193: one pass over the jobs per status
GetProgressCount ==
  /\ gp.pc # "idle"
  /\ CASE gp.pc = "completed" ->
            /\ gp' = [gp EXCEPT !.pc = "failed",
                                !.completed = Count(jobs, "completed")]
            /\ UNCHANGED progress
       [] gp.pc = "failed" ->
            /\ gp' = [gp EXCEPT !.pc = "processing",
                                !.failed = Count(jobs, "failed")]
            /\ UNCHANGED progress
       [] gp.pc = "processing" ->
            /\ gp' = [gp EXCEPT !.pc = "pending",
                                !.processing = Count(jobs, "processing")]
            /\ UNCHANGED progress
       [] gp.pc = "pending" ->
            /\ gp' = GpIdle
            /\ progress' =
                 [total      |-> gp.total,
                  completed  |-> gp.completed,
                  failed     |-> gp.failed,
                  processing |-> gp.processing,
                  pending    |-> Count(jobs, "pending"),
                  \* the fraction as numerator and denominator
                  progress   |-> IF gp.total > 0
                                 THEN <<gp.completed + gp.failed, gp.total>>
                                 ELSE <<1, 1>>]

IxIdle == [pc |-> "idle", directory |-> "", force_update |-> FALSE,
           file_paths |-> <<>>,
           files_to_index |-> <<>>, error_count |-> 0, skipped_count |-> 0,
           start |-> 0, fresh |-> 0]

\* the pypdf library is installed or not; the pool has some size
InitPool ==
  /\ pdf_available \in BOOLEAN
  /\ max_workers \in 1..MaxWorkers

\* BatchProcessor() with its defaults on a machine with pypdf
InitDefaultPool ==
  /\ pdf_available = TRUE
  /\ max_workers = 4

\* FileIndexBuilder before its first run
InitBuilder ==
  /\ ix = IxIdle
  /\ runs = <<>>
  /\ extracted = {}
  /\ faults = 0

InitBatchProcessor ==
  /\ InitBuilder
  /\ temp = <<>>
  /\ base_directory = "data/files"
  /\ jobs = <<>>
  /\ pd = PdIdle
  /\ cb_calls = <<>>
  /\ results = <<>>
  /\ gp = GpIdle
  /\ progress = NoProgress

(***************************************************************************)
(* SpecBatch: process_directory("/d", callback) with an arbitrary callback *)
(***************************************************************************)
\* the tree as the run finds it: any content, a.txt perhaps unreadable
InitTree ==
  /\ disk \in [Files -> {[exists |-> TRUE, bytes |-> b, mtime |-> 0,
                          readable |-> r] : b \in Bytes, r \in BOOLEAN}]
  /\ \A f \in Files :
       /\ disk[f].readable \/ f = "/d/a.txt"
       /\ disk[f].bytes = 1 \/ f \in {"/d/b.pdf", "/d/c.json"}
  /\ edits = 0

InitBatch ==
  /\ InitTree /\ InitFileIndex /\ InitPool /\ InitBatchProcessor
  /\ symlinks = TRUE
  /\ InitAssistant

NoIndexCall == UNCHANGED <<disk, edits, files, directories, persisted, call,
                           added, symlinks, loaded, prior, rvars, ix, runs, extracted, faults>>

ProcessDirectory(directory, callback) ==
  /\ pd.pc = "idle"
  /\ StartRun(directory, callback, disk, temp)
  /\ UNCHANGED <<temp, pdf_available, max_workers, gp, progress>>
  /\ NoIndexCall

Start(i) == StartJob(i) /\ NoIndexCall

Finish(i) == FinishJob(i) /\ NoIndexCall

Collect(i) ==
  /\ TakeJob(i)
  /\ UNCHANGED <<temp, pdf_available, max_workers, base_directory, jobs,
                 cb_calls, gp, progress>>
  /\ NoIndexCall

Callback(raises1, raises2) ==
  /\ pd.pc = "callback"
  /\ AfterCallback(raises1, raises2)
  /\ UNCHANGED <<temp, pdf_available, max_workers, base_directory, results,
                 gp, progress>>
  /\ NoIndexCall

Return ==
  /\ EndRun
  /\ UNCHANGED <<temp, pdf_available, max_workers, base_directory, jobs,
                 cb_calls, results, gp, progress>>
  /\ NoIndexCall

NextBatch ==
  \/ \E cb \in BOOLEAN : ProcessDirectory("/d", cb)
  \/ \E i \in JobIds : Start(i)
  \/ \E i \in JobIds : Finish(i)
  \/ \E i \in JobIds : Collect(i)
  \/ \E r1, r2 \in BOOLEAN : Callback(r1, r2)
  \/ Return

SpecBatch == InitBatch /\ [][NextBatch]_vars

\* the pool runs every queued job: its worker threads are scheduled fairly
SpecBatchFair ==
  /\ SpecBatch
  /\ WF_vars(\E i \in JobIds : Start(i))
  /\ WF_vars(\E i \in JobIds : Finish(i))

(***************************************************************************)
(* SpecProgress: the same run with a thread that calls get_progress        *)
(***************************************************************************)
InitProgress ==
  /\ InitDisk /\ InitFileIndex /\ InitPool /\ InitBatchProcessor
  /\ symlinks = TRUE
  /\ InitAssistant

GetProgress ==
  /\ GetProgressBegin \/ GetProgressCount
  /\ UNCHANGED <<temp, pdf_available, max_workers, base_directory, jobs, pd,
                 cb_calls, results>>
  /\ NoIndexCall

NextProgress ==
  \/ \E cb \in BOOLEAN : ProcessDirectory("/d", cb)
  \/ \E i \in JobIds : Start(i)
  \/ \E i \in JobIds : Finish(i)
  \/ \E i \in JobIds : Collect(i)
  \/ \E r1, r2 \in BOOLEAN : Callback(r1, r2)
  \/ Return
  \/ GetProgress

SpecProgress == InitProgress /\ [][NextProgress]_vars

(***************************************************************************)
(* FileIndexBuilder.index_directory (src/file_index.py)                    *)
(***************************************************************************)
\* lines 27-32: the files os.walk finds under the directory
Walk(dsk) == SelectSeq(WalkOrder, LAMBDA f : dsk[f].exists)

\* a directory that does not exist
NoDir == "/e"

\* lines 28-32: os.walk(directory) is given no onerror, so the error of
\* listing a top directory that does not exist is ignored and the walk
\* yields nothing
os_walk(directory, dsk) ==
  IF directory = "/d" THEN Walk(dsk) ELSE <<>>

\* mutant: every file is taken to need indexing
NeedsIndexing_all(fs, dsk, force_update, file_path) == TRUE

\* mutant: a file that has a record is never taken again
NeedsIndexing_unrecorded(fs, dsk, force_update, file_path) ==
  force_update \/ abspath(file_path) \notin DOMAIN fs

\* line 37: the test that puts a file in files_to_index
NeedsIndexing(fs, dsk, force_update, file_path) ==
  force_update \/ file_needs_update(fs, dsk, file_path) = "true"

\* mutant: a staging error empties the staging directory
StageFile_abort(acc, file_path) ==
  LET filename == basename(file_path)
      src == acc.dsk[file_path]
  IN
  IF symlinks /\ filename \notin DOMAIN acc.tmp
  THEN [acc EXCEPT !.tmp = Put(@, filename,
                     [link |-> TRUE, target |-> file_path, copy |-> NoFile])]
  ELSE IF ~Readable(src)
  THEN [acc EXCEPT !.error_count = @ + 1, !.tmp = <<>>]
  ELSE IF filename \in DOMAIN acc.tmp /\ acc.tmp[filename].link
  THEN LET target == acc.tmp[filename].target IN
       IF acc.dsk[target].exists /\ ~acc.dsk[target].readable
       THEN [acc EXCEPT !.error_count = @ + 1, !.tmp = <<>>]
       ELSE [acc EXCEPT !.dsk[target] = src]
  ELSE [acc EXCEPT !.tmp = Put(@, filename,
                     [link |-> FALSE, target |-> file_path, copy |-> src])]

\* lines 55-69 for one file: link it into the staging directory, or copy
\* it when the link cannot be made.  shutil.copy2 onto an existing link
\* opens the link's target for writing: it fails on a target the process
\* may not open, and otherwise leaves the source's content in the file
\* staged under that name before.
StageFile(acc, file_path) ==
  LET filename == basename(file_path)
      src == acc.dsk[file_path]
  IN
  IF symlinks /\ filename \notin DOMAIN acc.tmp
  THEN [acc EXCEPT !.tmp = Put(@, filename,
                     [link |-> TRUE, target |-> file_path, copy |-> NoFile])]
  ELSE IF ~Readable(src)
  THEN [acc EXCEPT !.error_count = @ + 1]
  ELSE IF filename \in DOMAIN acc.tmp /\ acc.tmp[filename].link
  THEN LET target == acc.tmp[filename].target IN
       IF acc.dsk[target].exists /\ ~acc.dsk[target].readable
       THEN [acc EXCEPT !.error_count = @ + 1]
       ELSE [acc EXCEPT !.dsk[target] = src]
  ELSE [acc EXCEPT !.tmp = Put(@, filename,
                     [link |-> FALSE, target |-> file_path, copy |-> src])]

\* lines 47-69: the emptied staging directory filled from files_to_index
RECURSIVE Stage(_, _)
Stage(acc, files_to_index) ==
  IF files_to_index = <<>> THEN acc
  ELSE Stage(StageFile(acc, Head(files_to_index)), Tail(files_to_index))

\* lines 91-98
Result(total_files, indexed, errors, skipped) ==
  [total_files |-> total_files, indexed |-> indexed, errors |-> errors,
   skipped |-> skipped]

\* history: the run that returned, with the number of file-system events
\* when it started, when it returned and when the run before it started
Remember(directory, force_update, start, fresh, result) ==
  <<[directory |-> directory,
     force_update |-> force_update,
     before |-> IF runs = <<>> THEN -1 ELSE runs[1].start,
     start  |-> start,
     end    |-> edits,
     fresh  |-> fresh,
     result |-> result]>>

\* history: the files under the directory whose record holds the hash of
\* their present content
Fresh(fs, dsk) ==
  {f \in Files : /\ dsk[f].exists
                 /\ f \in DOMAIN fs
                 /\ fs[f].hash = _get_file_hash(dsk[f])}

BuilderIdle == ix.pc = "idle" /\ pd.pc = "idle"

\* index_directory, lines 25-83: enumerate, select, stage, submit the jobs;
\* with nothing to index the call returns at once
index_directory(directory, force_update) ==
  LET file_paths     == os_walk(directory, disk)
      files_to_index ==
        SelectSeq(file_paths,
                  LAMBDA f : NeedsIndexing(files, disk, force_update, f))
      skipped_count  == Len(file_paths) - Len(files_to_index)
      staged == Stage([tmp |-> <<>>, dsk |-> disk, error_count |-> 0],
                      files_to_index)
  IN
  /\ BuilderIdle
  /\ Quiet
  /\ IF files_to_index = <<>>
     THEN /\ runs' = Remember(directory, force_update, edits,
                               Cardinality(Fresh(files, disk)),
                               Result(Len(file_paths), 0, 0, skipped_count))
          /\ UNCHANGED <<disk, temp, base_directory, jobs, pd, cb_calls,
                         results, ix>>
     ELSE /\ temp' = staged.tmp
          /\ disk' = staged.dsk
          /\ StartRun(TempDir, TRUE, staged.dsk, staged.tmp)
          /\ ix' = [pc |-> "run", directory |-> directory,
                    force_update |-> force_update,
                    file_paths |-> file_paths,
                    files_to_index |-> files_to_index,
                    error_count |-> staged.error_count,
                    skipped_count |-> skipped_count,
                    start |-> edits,
                    fresh |-> Cardinality(Fresh(files, disk))]
          /\ UNCHANGED runs
  /\ UNCHANGED <<edits, files, directories, persisted, call, added,
                 pdf_available, max_workers, gp, progress, symlinks, loaded,
                 prior, extracted, faults>>

\* index_directory called by a caller that does nothing else meanwhile
IndexDirectory(directory, force_update) ==
  /\ index_directory(directory, force_update)
  /\ UNCHANGED rvars

WorkerStarts(i) ==
  /\ ix.pc = "run"
  /\ StartJob(i)
  /\ NoIndexCall

\* the file whose content the job of a staged name reads
Source(filename) == temp[filename].target

\* history: whether the content the worker obtained is the file's text
Extracted(job) ==
  /\ job.status = "completed"
  /\ job.result.content.text

WorkerFinishes(i) ==
  /\ ix.pc = "run"
  /\ FinishJob(i)
  /\ extracted' = IF Extracted(jobs'[i])
                  THEN extracted \cup {Source(jobs[i].filename)}
                  ELSE extracted
  /\ UNCHANGED <<disk, edits, files, directories, persisted, call, added,
                 symlinks, loaded, prior, rvars, ix, runs, faults>>

Collects(i) ==
  /\ ix.pc = "run"
  /\ TakeJob(i)
  /\ UNCHANGED <<temp, pdf_available, max_workers, base_directory, jobs,
                 cb_calls, gp, progress>>
  /\ NoIndexCall

\* lines 76-77: the first path of files_to_index with the job's filename
OriginalPath(files_to_index, orig_filename) ==
  LET hits == SelectSeq(files_to_index,
                        LAMBDA f : basename(f) = orig_filename)
  IN  IF hits = <<>> THEN "" ELSE Head(hits)

\* update_index (lines 72-80) called by process_directory for the job it
\* took, and the except branch of process_directory when add_file raises
UpdateIndex(ok) ==
  LET job_info  == jobs[pd.cur]
      file_path == OriginalPath(ix.files_to_index, job_info.filename)
      adds      == /\ job_info.status = "completed"
                   /\ job_info.result # <<>>
                   /\ file_path # ""
      abs_path  == abspath(file_path)
      st        == disk[abs_path]
      fs        == Put(files, abs_path,
                       FileRecord(abs_path, _get_file_hash(st),
                                  job_info.result))
      ds        == AddToDirectory(directories, abs_path)
  IN
  /\ ix.pc = "run"
  /\ pd.pc = "callback"
  /\ ok \/ faults < MaxFaults
  /\ faults' = IF ok THEN faults ELSE faults + 1
  /\ IF ~adds
     THEN /\ ok
          /\ AfterCallback(FALSE, FALSE)
          /\ UNCHANGED <<files, directories, persisted, added>>
     ELSE IF ~st.exists
     THEN /\ ok
          /\ AfterCallback(TRUE, FALSE)
          /\ UNCHANGED <<files, directories, persisted, added>>
     ELSE /\ files' = fs
          /\ directories' = ds
          /\ persisted' \in _save_index(ok, fs, ds, persisted)
          /\ added' = Put(added, abs_path, st)
          /\ AfterCallback(~ok, FALSE)
  /\ UNCHANGED <<disk, edits, call, temp, pdf_available, max_workers,
                 base_directory, results, gp, progress, symlinks, loaded, prior, rvars, ix, runs,
                 extracted>>

\* process_directory returns; index_directory, lines 85-98, counts the
\* jobs and returns its result
index_directory_returns ==
  /\ ix.pc = "run"
  /\ pd.pc = "collect" /\ pd.collected = JobIds
  /\ runs' = Remember(ix.directory, ix.force_update, ix.start, ix.fresh,
                      Result(Len(ix.file_paths),
                             Count(jobs, "completed"),
                             ix.error_count + Count(jobs, "failed"),
                             ix.skipped_count))
  /\ ix' = IxIdle
  \* the locals of process_directory are gone
  /\ pd' = PdIdle
  /\ cb_calls' = <<>>
  /\ results' = <<>>
  /\ UNCHANGED <<disk, edits, files, directories, persisted, call, added,
                 temp, pdf_available, max_workers, base_directory, jobs,
                 gp, progress, symlinks, loaded, prior, extracted, faults>>

IndexDirectoryReturns ==
  /\ index_directory_returns
  /\ UNCHANGED rvars

(***************************************************************************)
(* SpecBuilder: index_directory("/d", force_update) runs, one after the    *)
(* other, on a tree that no one else changes                               *)
(***************************************************************************)
InitBuilderSpec ==
  /\ InitTree /\ InitFileIndex /\ InitBatchProcessor
  /\ pdf_available = TRUE
  /\ max_workers = 4
  /\ symlinks \in BOOLEAN
  /\ InitAssistant

NextBuilder ==
  \/ \E force_update \in BOOLEAN : IndexDirectory("/d", force_update)
  \/ \E i \in JobIds : WorkerStarts(i)
  \/ \E i \in JobIds : WorkerFinishes(i)
  \/ \E i \in JobIds : Collects(i)
  \/ \E ok \in BOOLEAN : UpdateIndex(ok)
  \/ IndexDirectoryReturns

SpecBuilder == InitBuilderSpec /\ [][NextBuilder]_vars

(***************************************************************************)
(* SpecIndex and SpecStale                                                 *)
(***************************************************************************)
InitIndex ==
  /\ InitDisk /\ InitFileIndex /\ InitDefaultPool /\ InitBatchProcessor
  /\ symlinks = TRUE
  /\ InitAssistant

IndexFiles == {"/d/a.txt", "/d/b.pdf", "/d/s/a.txt"}
IndexPaths == IndexFiles \cup {"d/a.txt", "d/s/a.txt"}

NextIndex ==
  \/ \E p \in IndexPaths : AddFileBegin(p, InfoFor(abspath(p)))
  \/ \E ok \in BOOLEAN : AddFileEnd(ok)
  \/ \E p \in IndexPaths, ok \in BOOLEAN : RemoveFile(p, ok)
  \/ \E ok \in BOOLEAN : ClearIndex(ok)
  \/ \E f \in IndexFiles : DeleteFile(f)

SpecIndex == InitIndex /\ [][NextIndex]_vars

StaleFiles == {"/d/a.txt"}
StalePaths == StaleFiles \cup {"d/a.txt"}

NextStale ==
  \/ \E p \in StalePaths, i \in FileInfos : AddFileBegin(p, i)
  \/ \E ok \in BOOLEAN : AddFileEnd(ok)
  \/ \E p \in StalePaths, ok \in BOOLEAN : RemoveFile(p, ok)
  \/ \E f \in StaleFiles, b \in Bytes : WriteFile(f, b)
  \/ \E f \in StaleFiles : TouchFile(f)
  \/ \E f \in StaleFiles : ChmodFile(f)
  \/ \E f \in StaleFiles : DeleteFile(f)

SpecStale == InitIndex /\ [][NextStale]_vars

(***************************************************************************)
(* SpecConcurrent: two threads call add_file / remove_file on one          *)
(* FileIndex; on a tree no one changes, with every write succeeding        *)
(***************************************************************************)
\* remove_file run by a second thread while the first is inside add_file,
\* between the line that lists the path and the line that stores the
\* record: FileIndex has no lock that would make it wait
RemoveFileMeanwhile(file_path) ==
  LET abs_path  == abspath(file_path)
      directory == dirname(abs_path)
      fs == IF abs_path \in DOMAIN files THEN Del(files, abs_path) ELSE files
      ds == IF /\ directory \in DOMAIN directories
               /\ Contains(directories[directory], abs_path)
            THEN [directories EXCEPT ![directory] = ListRemove(@, abs_path)]
            ELSE directories
  IN
  /\ call.op = "add_file" /\ call.outcome = "running"
  /\ files' = fs
  /\ directories' = ds
  /\ persisted' \in _save_index(TRUE, fs, ds, persisted)
  /\ UNCHANGED <<disk, edits, call, added>>
  /\ UNCHANGED bvars

NextConcurrent ==
  \/ \E p \in IndexPaths : AddFileBegin(p, InfoFor(abspath(p)))
  \/ AddFileEnd(TRUE)
  \/ \E p \in IndexPaths : RemoveFile(p, TRUE)
  \/ \E p \in IndexPaths : RemoveFileMeanwhile(p)

SpecConcurrent == InitIndex /\ [][NextConcurrent]_vars

(***************************************************************************)
(* SpecLoad: the process restarts and builds a new FileIndex from the      *)
(* index file, which failed writes and other programs may have damaged     *)
(***************************************************************************)
\* index files that hold no snapshot: bytes open() cannot decode as text,
\* and well-formed JSON that is not an object with "files" and
\* "directories" (such as {} or [])
BinaryIndexFile == [state |-> "binary", files |-> <<>>, directories |-> <<>>]
OtherIndexFile == [state |-> "other", files |-> <<>>, directories |-> <<>>]

\* mutant: the index file is not read
_load_index_fresh(file) ==
  [outcome |-> "returned", loaded |-> "snapshot",
   files |-> _create_empty_index.files,
   directories |-> _create_empty_index.directories]

\* FileIndex._load_index: only json.JSONDecodeError is caught, and what
\* json.load returns is not inspected
_load_index(file) ==
  CASE file.state \in {"missing", "partial"} ->
         [outcome |-> "returned", loaded |-> "snapshot",
          files |-> _create_empty_index.files,
          directories |-> _create_empty_index.directories]
    [] file.state = "binary" ->
         [outcome |-> "raised", loaded |-> "none",
          files |-> <<>>, directories |-> <<>>]
    [] file.state = "other" ->
         [outcome |-> "returned", loaded |-> "other",
          files |-> <<>>, directories |-> <<>>]
    [] file.state = "ok" ->
         [outcome |-> "returned", loaded |-> "snapshot",
          files |-> file.files, directories |-> file.directories]

\* FileIndex.get_all_files
get_all_files(fs) == {fs[p] : p \in DOMAIN fs}

\* FileIndex.get_files_in_directory
get_files_in_directory(fs, ds, directory) ==
  LET abs_dir == abspath(directory) IN
  IF abs_dir \notin DOMAIN ds THEN <<>>
  ELSE LET listed == SelectSeq(ds[abs_dir], LAMBDA p : p \in DOMAIN fs)
       IN  [i \in 1..Len(listed) |-> fs[listed[i]]]

\* sum(counts.values()) of a dict of numbers
RECURSIVE SumValues(_)
SumValues(counts) ==
  IF DOMAIN counts = {} THEN 0
  ELSE LET k == CHOOSE x \in DOMAIN counts : TRUE
       IN  counts[k] + SumValues(Del(counts, k))

\* FileIndex.get_index_summary: the number of records and, per directory
\* entry, the length of its file list
get_index_summary(fs, ds) ==
  [total_files |-> Cardinality(get_all_files(fs)),
   directories |-> [dir_path \in DOMAIN ds |-> Len(ds[dir_path])]]

\* the variables a new FileIndex and a change of the index file leave alone
pvars == <<disk, edits, added, temp, pdf_available, max_workers,
           base_directory, jobs, pd, cb_calls, results, gp, progress,
           symlinks, rvars, ix, runs, extracted, faults>>

\* the calls that end with a save of the index
Mutations == {"add_file", "remove_file", "clear_index"}

\* FileIndex.__init__ in a process that starts over
NewFileIndex ==
  LET snapshot == _load_index(persisted) IN
  /\ Quiet
  /\ files' = snapshot.files
  /\ directories' = snapshot.directories
  /\ loaded' = snapshot.loaded
  /\ call' = Finished("__init__", "", snapshot.outcome)
  /\ prior' = [files |-> files, directories |-> directories,
               saved |-> /\ loaded = "snapshot"
                         /\ call.op \in Mutations
                         /\ call.outcome = "returned"]
  /\ UNCHANGED persisted
  /\ UNCHANGED pvars

\* another program deletes the index file or writes something else to it
DamageIndexFile(file) ==
  /\ Quiet
  /\ file # persisted
  /\ persisted' = file
  /\ call' = Finished("env", "", "none")
  /\ UNCHANGED <<files, directories, loaded, prior>>
  /\ UNCHANGED pvars

\* add_file (line 180) and remove_file (line 209) on an index that is not
\* a snapshot: the subscript raises before anything changed
RaisesOnOther(op) ==
  /\ Quiet
  /\ loaded = "other"
  /\ call' = Finished(op, "", "raised")
  /\ UNCHANGED <<files, directories, persisted, loaded, prior>>
  /\ UNCHANGED pvars

NextLoad ==
  \/ NewFileIndex
  \/ \E file \in {NoIndexFile, BinaryIndexFile, OtherIndexFile} :
       DamageIndexFile(file)
  \/ \E p \in IndexFiles :
       loaded = "snapshot" /\ AddFileBegin(p, InfoFor(p))
  \/ \E ok \in BOOLEAN : AddFileEnd(ok)
  \/ \E p \in IndexFiles, ok \in BOOLEAN :
       loaded = "snapshot" /\ RemoveFile(p, ok)
  \/ \E op \in {"add_file", "remove_file"} : RaisesOnOther(op)

SpecLoad == InitIndex /\ [][NextLoad]_vars

(***************************************************************************)
(* SpecRescan: index_directory("/d", force_update) runs on the sample      *)
(* tree, with files deleted between the runs                               *)
(***************************************************************************)
InitRescan ==
  /\ InitDisk /\ InitFileIndex /\ InitDefaultPool /\ InitBatchProcessor
  /\ symlinks = TRUE
  /\ InitAssistant

NextRescan ==
  \/ \E force_update \in BOOLEAN : IndexDirectory("/d", force_update)
  \/ \E i \in JobIds : WorkerStarts(i)
  \/ \E i \in JobIds : WorkerFinishes(i)
  \/ \E i \in JobIds : Collects(i)
  \/ \E ok \in BOOLEAN : UpdateIndex(ok)
  \/ IndexDirectoryReturns
  \/ \E f \in Files : BuilderIdle /\ DeleteFile(f)

SpecRescan == InitRescan /\ [][NextRescan]_vars

(***************************************************************************)
(* SpecRefresh: index_directory("/d", force_update) runs on the sample     *)
(* tree, with files rewritten between the runs and every save succeeding   *)
(***************************************************************************)
RefreshFiles == {"/d/b.pdf", "/d/c.json"}

NextRefresh ==
  \/ \E force_update \in BOOLEAN : IndexDirectory("/d", force_update)
  \/ \E i \in JobIds : WorkerStarts(i)
  \/ \E i \in JobIds : WorkerFinishes(i)
  \/ \E i \in JobIds : Collects(i)
  \/ UpdateIndex(TRUE)
  \/ IndexDirectoryReturns
  \/ \E f \in RefreshFiles, b \in Bytes : BuilderIdle /\ WriteFile(f, b)

SpecRefresh == InitRescan /\ [][NextRefresh]_vars

(***************************************************************************)
(* SpecMissing: index_directory runs on the sample tree and on a           *)
(* directory that does not exist, every save succeeding                    *)
(***************************************************************************)
NextMissing ==
  \/ \E directory \in {"/d", NoDir}, force_update \in BOOLEAN :
       IndexDirectory(directory, force_update)
  \/ \E i \in JobIds : WorkerStarts(i)
  \/ \E i \in JobIds : WorkerFinishes(i)
  \/ \E i \in JobIds : Collects(i)
  \/ UpdateIndex(TRUE)
  \/ IndexDirectoryReturns

SpecMissing == InitRescan /\ [][NextMissing]_vars

(***************************************************************************)
(* SpecRetriever: add_document and retrieve calls on one KeywordRetriever  *)
(***************************************************************************)
\* the variables the retriever does not touch
nvars == <<disk, edits, files, directories, persisted, call, added, temp,
           pdf_available, max_workers, base_directory, jobs, pd, cb_calls,
           results, gp, progress, symlinks, loaded, prior, ix, runs,
           extracted, faults>>

\* the documents callers add: with an id of their own or without one
Documents == [id : ExplicitIds, content : Contents] \cup [content : Contents]

\* the query strings, the empty string among them
Queries == {<<"alpha">>, <<"Gamma", "-", "Alpha">>, <<"beta">>,
            <<"delta">>, <<>>}

\* top_k: 3 when the caller gives none
TopKs == {1, 3}

\* the caller gave the id of the document to an earlier add_document call
GivenBefore(document) ==
  IF "id" \in DOMAIN document
  THEN \E k \in 1..Len(documents) :
         documents[k].given /\ documents[k].id = document.id
  ELSE FALSE

\* add_document, lines 39-68.  The result of the last retrieve call is
\* forgotten (history).
add_document(document) ==
  /\ Len(documents) < MaxDocs
  /\ documents' = Append(documents, StoredDocument(documents, document))
  /\ index' = IndexTokens(index, _tokenize(document.content),
                          NewDocId(documents, document))
  /\ retrieved' = NoRetrieve
  /\ UNCHANGED <<indexing, ovars>>
  /\ UNCHANGED nvars

\* add_document called with a document whose id, if it has one, no caller
\* gave before
AddDocument(document) ==
  /\ ~GivenBefore(document)
  /\ add_document(document)

\* add_document called again with an id given before, as handle_file_upload
\* (app.py lines 1097-1104) does for a file that is uploaded again
AddDocumentAgain(document) ==
  /\ GivenBefore(document)
  /\ add_document(document)

\* retrieve, lines 82-110; "during" is history, where the refresh thread
\* was when the call ran
Retrieve(query, top_k) ==
  LET r == retrieve(documents, index, query, top_k) IN
  /\ retrieved' = [op |-> "retrieve", query |-> query, top_k |-> top_k,
                   outcome |-> r.outcome, results |-> r.results,
                   during |-> indexing.pc]
  /\ UNCHANGED <<documents, index, indexing, ovars>>
  /\ UNCHANGED nvars

NextRetriever ==
  \/ \E document \in Documents : AddDocument(document)
  \/ \E query \in Queries, top_k \in TopKs : Retrieve(query, top_k)

SpecRetriever == InitIndex /\ [][NextRetriever]_vars

(***************************************************************************)
(* SpecReindex: add_document calls of callers that reuse their ids         *)
(***************************************************************************)
NextReindex ==
  \/ \E document \in Documents : AddDocument(document)
  \/ \E document \in Documents : AddDocumentAgain(document)

SpecReindex == InitIndex /\ [][NextReindex]_vars

(***************************************************************************)
(* SpecSnippet: one _find_relevant_snippet call on a content, a list of    *)
(* query terms and a window radius                                         *)
(***************************************************************************)
\* the strings of at most MaxLen characters
Strings == UNION {[1..n -> Chars] : n \in 0..MaxLen}

InitSnippet ==
  /\ InitDisk /\ InitFileIndex /\ InitDefaultPool /\ InitBatchProcessor
  /\ symlinks = TRUE
  /\ InitRetriever
  /\ indexing = IndexingIdle
  /\ InitCalls
  /\ snippet \in [content : Strings, query_terms : TermLists,
                  context_size : ContextSizes, called : {FALSE},
                  result : {NoSnippetFound}]

\* search_files, line 1011: the call and what it returns
FindRelevantSnippet ==
  /\ ~snippet.called
  /\ snippet' = [snippet EXCEPT
                   !.called = TRUE,
                   !.result = _find_relevant_snippet(snippet.content,
                                                     snippet.query_terms,
                                                     snippet.context_size)]
  /\ UNCHANGED <<documents, index, retrieved, indexing, ctor, chunking,
                 upload>>
  /\ UNCHANGED nvars

NextSnippet ==
  \/ FindRelevantSnippet

SpecSnippet == InitSnippet /\ [][NextSnippet]_vars

(***************************************************************************)
(* SpecAssistant: AIAssistant.refresh_file_index starts the thread of      *)
(* _background_indexing over the sample tree, while search_files calls     *)
(* query the retriever (src/app.py)                                        *)
(***************************************************************************)
\* _get_file_content, lines 166-194: the file of that name under the
\* directory of the handlers, read by its type; every error becomes a
\* message
_get_file_content(dsk, file_info) ==
  LET st == Resolve("/d", file_info.filename, dsk, <<>>) IN
  CASE file_info.type \in {"text", "csv"} ->
         IF Readable(st) THEN Text(st.bytes) ELSE Message
    [] file_info.type = "json" ->
         IF Parses(st) THEN Text(st.bytes) ELSE Message
    [] file_info.type = "pdf" /\ pdf_available -> extract_text_from_pdf(st)
    [] OTHER -> Message

\* the string add_document tokenizes (lines 48-56) for a content: the
\* words of the file, or those of the message
ContentString(content) ==
  IF ~content.text THEN <<"error", " ", "accessing", " ", "file">>
  ELSE CASE content.v = 0 -> <<"beta">>
         [] content.v = 1 -> <<"alpha", " ", "beta">>
         [] OTHER         -> <<"alpha", "-", "Gamma">>

\* search_files (line 990) asks for max_results = 5 documents
AppQueries == {<<"alpha">>}
MaxResults == 5

\* refresh_file_index, lines 198-209: unless a refresh is in progress,
\* start the thread
RefreshFileIndex(force_update) ==
  /\ indexing.pc = "idle"
  /\ ~indexing.in_progress
  /\ BuilderIdle
  /\ indexing' = [pc |-> "clear_documents", in_progress |-> FALSE,
                  force_update |-> force_update, todo |-> {}]
  /\ UNCHANGED <<documents, index, retrieved, ovars>>
  /\ UNCHANGED nvars

\* _background_indexing, lines 216-223
ClearDocuments ==
  /\ indexing.pc = "clear_documents"
  /\ documents' = <<>>
  /\ retrieved' = NoRetrieve
  /\ indexing' = [indexing EXCEPT !.pc = "clear_index",
                                  !.in_progress = TRUE]
  /\ UNCHANGED <<index, ovars>>
  /\ UNCHANGED nvars

\* lines 224-225
ClearRetrieverIndex ==
  /\ indexing.pc = "clear_index"
  /\ index' = <<>>
  /\ retrieved' = NoRetrieve
  /\ indexing' = [indexing EXCEPT !.pc = "count"]
  /\ UNCHANGED <<documents, ovars>>
  /\ UNCHANGED nvars

\* lines 235-243 and 288-289: without files the thread is done
CountFiles ==
  /\ indexing.pc = "count"
  /\ indexing' = IF Len(os_walk("/d", disk)) = 0
                 THEN IndexingIdle
                 ELSE [indexing EXCEPT !.pc = "index_directory"]
  /\ UNCHANGED <<documents, index, retrieved, ovars>>
  /\ UNCHANGED nvars

\* line 253: the call of index_directory; line 261, get_all_files(), when
\* the call finds nothing to index and returns at once
BackgroundIndexDirectory ==
  /\ indexing.pc = "index_directory"
  /\ index_directory("/d", indexing.force_update)
  /\ indexing' = IF ix'.pc = "idle"
                 THEN [indexing EXCEPT !.pc = "add_document",
                                       !.todo = DOMAIN files]
                 ELSE [indexing EXCEPT !.pc = "indexing"]
  /\ UNCHANGED <<documents, index, retrieved, ovars>>

\* lines 253-261: index_directory returns, and get_all_files()
BackgroundIndexDirectoryReturns ==
  /\ indexing.pc = "indexing"
  /\ index_directory_returns
  /\ indexing' = [indexing EXCEPT !.pc = "add_document",
                                  !.todo = DOMAIN files]
  /\ UNCHANGED <<documents, index, retrieved, ovars>>

\* lines 261-281 for one file of the index (none of the sample files is
\* long enough to be chunked)
AddFromIndex(file_path) ==
  LET file_info == files[file_path]
      doc == [id |-> file_path,
              content |-> ContentString(_get_file_content(disk, file_info))]
  IN
  /\ indexing.pc = "add_document"
  /\ file_path \in indexing.todo
  /\ documents' = Append(documents, StoredDocument(documents, doc))
  /\ index' = IndexTokens(index, _tokenize(doc.content),
                          NewDocId(documents, doc))
  /\ retrieved' = NoRetrieve
  /\ indexing' = [indexing EXCEPT !.todo = @ \ {file_path}]
  /\ UNCHANGED ovars
  /\ UNCHANGED nvars

\* lines 283-289
BackgroundIndexingDone ==
  /\ indexing.pc = "add_document"
  /\ indexing.todo = {}
  /\ indexing' = IndexingIdle
  /\ UNCHANGED <<documents, index, retrieved, ovars>>
  /\ UNCHANGED nvars

NextAssistant ==
  \/ \E force_update \in BOOLEAN : RefreshFileIndex(force_update)
  \/ ClearDocuments
  \/ ClearRetrieverIndex
  \/ CountFiles
  \/ BackgroundIndexDirectory
  \/ \E i \in JobIds : WorkerStarts(i)
  \/ \E i \in JobIds : WorkerFinishes(i)
  \/ \E i \in JobIds : Collects(i)
  \/ UpdateIndex(TRUE)
  \/ BackgroundIndexDirectoryReturns
  \/ \E file_path \in Files : AddFromIndex(file_path)
  \/ BackgroundIndexingDone
  \/ \E query \in AppQueries : Retrieve(query, MaxResults)

SpecAssistant == InitRescan /\ [][NextAssistant]_vars

(***************************************************************************)
(* SpecConstruct: KeywordRetriever(documents) built from a list of         *)
(* documents (src/retrieval_system.py, lines 25-31)                        *)
(***************************************************************************)
\* the lists a caller passes: distinct dictionaries, at most two
DocumentLists ==
  {<<>>} \cup {<<d>> : d \in Documents}
         \cup {<<d, e>> : d \in Documents, e \in Documents}

\* lines 26-27: self.documents is the caller's list itself when that list
\* is not empty, and a new empty list otherwise
Construct(docs) ==
  /\ ctor.pc = "idle"
  /\ documents' = docs
  /\ index' = <<>>
  /\ ctor' = [pc |-> "loop", given |-> Len(docs), i |-> 1]
  /\ UNCHANGED <<retrieved, indexing, snippet, chunking, upload>>
  /\ UNCHANGED nvars

\* lines 30-31, one iteration: add_document(doc) for the next element of
\* the list the loop iterates, which is the list add_document appends to.
\* Line 44 writes the id into the dictionary, which the list then holds
\* twice.
ConstructorStep ==
  LET doc    == documents[ctor.i]
      stored == [StoredDocument(documents, doc) EXCEPT
                   !.given = IF "given" \in DOMAIN doc THEN doc.given
                             ELSE @]
  IN
  /\ ctor.pc = "loop"
  /\ ctor.i <= Len(documents)
  /\ Len(documents) < MaxDocs
  /\ documents' = Append([documents EXCEPT ![ctor.i] = stored], stored)
  /\ index' = IndexTokens(index, _tokenize(doc.content),
                          NewDocId(documents, doc))
  /\ ctor' = [ctor EXCEPT !.i = @ + 1]
  /\ UNCHANGED <<retrieved, indexing, snippet, chunking, upload>>
  /\ UNCHANGED nvars

\* lines 29-31: the list is empty, or the iterator is exhausted
ConstructorReturns ==
  /\ ctor.pc = "loop"
  /\ ctor.i > Len(documents)
  /\ ctor' = [ctor EXCEPT !.pc = "returned"]
  /\ UNCHANGED <<documents, index, retrieved, indexing, snippet, chunking,
                 upload>>
  /\ UNCHANGED nvars

NextConstruct ==
  \/ \E docs \in DocumentLists : Construct(docs)
  \/ ConstructorStep
  \/ ConstructorReturns

SpecConstruct == InitIndex /\ [][NextConstruct]_vars

(***************************************************************************)
(* SpecChunk: one DocumentProcessor.chunk_document call                    *)
(* (src/document_processor.py; FileProcessor.chunk_document in             *)
(* src/file_handler.py is the same code)                                   *)
(***************************************************************************)
\* the characters of a text: a letter and a sentence end
TextChars == {"a", "."}

Texts == UNION {[1..n -> TextChars] : n \in 0..MaxText}

ChunkSizes == 1..3

\* line 24: the characters a chunk may end after
BreakChars == {".", "\n", "!", "?"}

\* line 23: how far back from the end of a chunk a break is looked for
BreakWindow == 100

Min(a, b) == IF a < b THEN a ELSE b
Max(a, b) == IF a > b THEN a ELSE b

\* text[i] of Python, i counted from 0, a negative i from the end
At(text, i) == IF i < 0 THEN text[Len(text) + i + 1] ELSE text[i + 1]

\* text[start:end] of Python
Slice(text, start, end) ==
  LET from == IF start < 0 THEN Max(Len(text) + start, 0)
              ELSE Min(start, Len(text))
      to   == IF end < 0 THEN Max(Len(text) + end, 0)
              ELSE Min(end, Len(text))
  IN  IF from >= to THEN <<>> ELSE SubSeq(text, from + 1, to)

\* lines 19-26: where the chunk that starts at start ends
ChunkEnd(text, chunk_size, start) ==
  LET end == Min(start + chunk_size, Len(text))
      \* range(end, max(end - 100, start), -1)
      breaks == {i \in (Max(end - BreakWindow, start) + 1)..end :
                   At(text, i) \in BreakChars}
  IN  IF end < Len(text) /\ breaks # {}
      THEN (CHOOSE i \in breaks : \A j \in breaks : j <= i) + 1
      ELSE end

\* lines 15-16: the call
ChunkDocument(text, chunk_size, overlap) ==
  /\ chunking.pc = "idle"
  /\ 0 <= overlap /\ overlap < chunk_size
  /\ chunking' = [pc |-> "loop", text |-> text, chunk_size |-> chunk_size,
                  overlap |-> overlap, start |-> 0, chunks |-> <<>>,
                  more |-> 0]
  /\ UNCHANGED <<documents, index, retrieved, indexing, snippet, ctor,
                 upload>>
  /\ UNCHANGED nvars

\* lines 18-29: one iteration of the loop.  The list keeps growing; the
\* first MaxChunks chunks are kept, and of the later ones only whether their
\* number is odd (more)
ChunkStep ==
  LET end == ChunkEnd(chunking.text, chunking.chunk_size, chunking.start) IN
  /\ chunking.pc = "loop"
  /\ chunking.start < Len(chunking.text)
  /\ chunking' = [chunking EXCEPT
                    !.chunks = IF Len(@) < MaxChunks
                               THEN Append(@, Slice(chunking.text,
                                                    chunking.start, end))
                               ELSE @,
                    !.more = IF Len(chunking.chunks) < MaxChunks
                             THEN @ ELSE (@ + 1) % 2,
                    !.start = end - chunking.overlap]
  /\ UNCHANGED <<documents, index, retrieved, indexing, snippet, ctor,
                 upload>>
  /\ UNCHANGED nvars

\* lines 18 and 31: the loop is left and the chunks are returned
ChunkReturns ==
  /\ chunking.pc = "loop"
  /\ chunking.start >= Len(chunking.text)
  /\ chunking' = [chunking EXCEPT !.pc = "returned"]
  /\ UNCHANGED <<documents, index, retrieved, indexing, snippet, ctor,
                 upload>>
  /\ UNCHANGED nvars

NextChunk ==
  \/ \E text \in Texts, chunk_size \in ChunkSizes,
        overlap \in 0..2 :
       ChunkDocument(text, chunk_size, overlap)
  \/ ChunkStep
  \/ ChunkReturns

SpecChunk == InitIndex /\ [][NextChunk]_vars

\* the thread that called chunk_document keeps running
SpecChunkFair ==
  /\ SpecChunk
  /\ WF_vars(ChunkStep)
  /\ WF_vars(ChunkReturns)

(***************************************************************************)
(* SpecUpload: AIAssistant.handle_file_upload beside the thread of         *)
(* _background_indexing (src/app.py).  The directory "/d" is data/host_files, *)
(* the directory of the handlers the BatchProcessor was built with.  The   *)
(* upload thread, once inside index_directory, is followed through the     *)
(* schedules in which it reaches process_directory (line 83) when no other *)
(* run is inside it.                                                       *)
(***************************************************************************)
\* the file a user uploads, as save_uploaded_file names it
UploadFiles == {"d/c.json"}

\* _get_file_content, lines 166-194, for a file of data/host_files: read
\* through host_file_handler and host_doc_handler, in their base_directory
_get_host_file_content(dsk, tmp, file_info) ==
  LET st == Resolve(base_directory, file_info.filename, dsk, tmp) IN
  CASE file_info.type \in {"text", "csv"} ->
         IF Readable(st) THEN Text(st.bytes) ELSE Message
    [] file_info.type = "json" ->
         IF Parses(st) THEN Text(st.bytes) ELSE Message
    [] file_info.type = "pdf" /\ pdf_available -> extract_text_from_pdf(st)
    [] OTHER -> Message

InitUpload ==
  /\ InitDisk /\ InitFileIndex /\ InitDefaultPool /\ InitBuilder
  /\ temp = <<>>
  /\ base_directory = "/d"
  /\ jobs = <<>>
  /\ pd = PdIdle
  /\ cb_calls = <<>>
  /\ results = <<>>
  /\ gp = GpIdle
  /\ progress = NoProgress
  /\ symlinks = TRUE
  /\ InitAssistant

\* handle_file_upload, lines 1083-1090: the file is saved and
\* index_directory is called, whatever indexing_in_progress says
HandleFileUpload(file_path) ==
  /\ upload.pc = "idle"
  /\ edits < MaxEdits
  /\ disk' = [disk EXCEPT ![abspath(file_path)] =
                [exists |-> TRUE, bytes |-> 1, mtime |-> edits + 1,
                 readable |-> TRUE]]
  /\ edits' = edits + 1
  /\ upload' = [pc |-> "index_directory", file_path |-> file_path,
                run |-> UploadIdle.run]
  /\ UNCHANGED <<files, directories, persisted, call, added>>
  /\ UNCHANGED <<temp, pdf_available, max_workers, base_directory, jobs, pd,
                 cb_calls, results, gp, progress, symlinks, loaded, prior,
                 ix, runs, extracted, faults>>
  /\ UNCHANGED <<documents, index, retrieved, indexing, snippet, ctor,
                 chunking>>

\* index_directory of the upload thread, lines 25-69: enumerate, select,
\* empty the staging directory and stage; with nothing to index the call
\* returns at once
UploadStages ==
  LET file_paths     == os_walk("/d", disk)
      files_to_index ==
        SelectSeq(file_paths,
                  LAMBDA f : NeedsIndexing(files, disk, FALSE, f))
      skipped_count  == Len(file_paths) - Len(files_to_index)
      staged == Stage([tmp |-> <<>>, dsk |-> disk, error_count |-> 0],
                      files_to_index)
  IN
  /\ upload.pc = "index_directory"
  /\ Quiet
  /\ IF files_to_index = <<>>
     THEN /\ runs' = Remember("/d", FALSE, edits,
                               Cardinality(Fresh(files, disk)),
                               Result(Len(file_paths), 0, 0, skipped_count))
          /\ upload' = [upload EXCEPT !.pc = "add_document"]
          /\ UNCHANGED <<disk, temp>>
     ELSE /\ temp' = staged.tmp
          /\ disk' = staged.dsk
          /\ upload' = [upload EXCEPT
                          !.pc = "staged",
                          !.run = [pc |-> "run", directory |-> "/d",
                                   force_update |-> FALSE,
                                   file_paths |-> file_paths,
                                   files_to_index |-> files_to_index,
                                   error_count |-> staged.error_count,
                                   skipped_count |-> skipped_count,
                                   start |-> edits,
                                   fresh |-> Cardinality(Fresh(files, disk))]]
          /\ UNCHANGED runs
  /\ UNCHANGED <<edits, files, directories, persisted, call, added>>
  /\ UNCHANGED <<pdf_available, max_workers, base_directory, jobs, pd,
                 cb_calls, results, gp, progress, symlinks, loaded, prior,
                 ix, extracted, faults>>
  /\ UNCHANGED <<documents, index, retrieved, indexing, snippet, ctor,
                 chunking>>

\* line 83 in the upload thread: process_directory on the staging directory
UploadProcessDirectory ==
  /\ upload.pc = "staged"
  /\ BuilderIdle
  /\ StartRun(TempDir, TRUE, disk, temp)
  /\ ix' = upload.run
  /\ upload' = [upload EXCEPT !.pc = "indexing", !.run = UploadIdle.run]
  /\ UNCHANGED <<disk, edits, files, directories, persisted, call, added>>
  /\ UNCHANGED <<temp, pdf_available, max_workers, gp, progress, symlinks,
                 loaded, prior, runs, extracted, faults>>
  /\ UNCHANGED <<documents, index, retrieved, indexing, snippet, ctor,
                 chunking>>

\* lines 85-98 in the upload thread: index_directory returns
UploadIndexDirectoryReturns ==
  /\ upload.pc = "indexing"
  /\ index_directory_returns
  /\ upload' = [upload EXCEPT !.pc = "add_document"]
  /\ UNCHANGED <<documents, index, retrieved, indexing, snippet, ctor,
                 chunking>>

\* handle_file_upload, lines 1092-1106: the uploaded file is added to the
\* retriever under its path
UploadAddDocument ==
  LET filename == basename(upload.file_path)
      file_info == [filename |-> filename,
                    type |-> get_file_type(filename)]
      doc == [id |-> upload.file_path,
              content |-> ContentString(
                            _get_host_file_content(disk, temp, file_info))]
  IN
  /\ upload.pc = "add_document"
  /\ documents' = Append(documents, StoredDocument(documents, doc))
  /\ index' = IndexTokens(index, _tokenize(doc.content),
                          NewDocId(documents, doc))
  /\ retrieved' = NoRetrieve
  /\ upload' = UploadIdle
  /\ UNCHANGED <<indexing, snippet, ctor, chunking>>
  /\ UNCHANGED nvars

NextUpload ==
  \/ RefreshFileIndex(FALSE)
  \/ ClearDocuments
  \/ ClearRetrieverIndex
  \/ CountFiles
  \/ BackgroundIndexDirectory
  \/ \E i \in JobIds : WorkerStarts(i)
  \/ \E i \in JobIds : WorkerFinishes(i)
  \/ \E i \in JobIds : Collects(i)
  \/ UpdateIndex(TRUE)
  \/ BackgroundIndexDirectoryReturns
  \/ \E file_path \in Files : AddFromIndex(file_path)
  \/ BackgroundIndexingDone
  \/ \E file_path \in UploadFiles : HandleFileUpload(file_path)
  \/ UploadStages
  \/ UploadProcessDirectory
  \/ UploadIndexDirectoryReturns
  \/ UploadAddDocument

SpecUpload == InitUpload /\ [][NextUpload]_vars

(***************************************************************************)
(* Properties of BatchProcessor                                            *)
(***************************************************************************)
RunOver == pd.pc \in {"returned", "raised"}

\* extraction of the file of job i fails: the file cannot be read or
\* parsed, or no decoder handles its type
ExtractionFails(i) ==
  LET st == Resolve(base_directory, jobs[i].filename, disk, temp)
      file_type == jobs[i].file_type
  IN  CASE file_type \in {"text", "csv"} -> ~Readable(st)
        [] file_type = "json"            -> ~Parses(st)
        [] file_type = "pdf"             -> ~pdf_available \/ ~Parses(st)
        [] OTHER                         -> TRUE

\* C3 as stated, for a run without a callback: a run over K files of which
\* exactly one fails extraction ends with K terminal jobs, one failed and
\* K-1 completed, and get_progress reports the fraction 1.
C3_OneFailureIsolated ==
  (/\ RunOver /\ ~pd.callback
   /\ Cardinality({i \in JobIds : ExtractionFails(i)}) = 1) =>
    /\ \A i \in JobIds : jobs[i].status \in Terminal
    /\ Count(jobs, "failed") = 1
    /\ Count(jobs, "completed") = Len(jobs) - 1
    /\ get_progress(jobs).progress[1] = get_progress(jobs).progress[2]

\* C4: under fair scheduling of the workers every submitted job reaches a
\* terminal status.
C4_EveryJobTerminates ==
  \A i \in 1..Len(ListOrder) :
    (i \in JobIds) ~> (i \in JobIds /\ jobs[i].status \in Terminal)

\* C4 witness: a run of three jobs has ended, each job terminal, with both
\* terminal statuses present
C4_Witness ==
  /\ RunOver /\ Len(jobs) = 3
  /\ \A i \in JobIds : jobs[i].status \in Terminal
  /\ Count(jobs, "failed") >= 1 /\ Count(jobs, "completed") >= 1

\* C5 as stated: a job's status only moves pending -> processing ->
\* completed or failed, and a completed or failed job keeps its status,
\* also when the callback raises.
C5_StatusLifecycle ==
  [][pd.pc # "idle" =>
       \A i \in JobIds :
         \/ jobs'[i].status = jobs[i].status
         \/ <<jobs[i].status, jobs'[i].status>> \in
              { <<"pending", "processing">>,
                <<"processing", "completed">>,
                <<"processing", "failed">> }]_vars

\* C6 as stated: with a callback, no job has it invoked twice, and when the
\* run is over every job had it invoked exactly once.
C6_OneCallbackPerJob ==
  pd.callback =>
    /\ \A i \in JobIds : cb_calls[i] <= 1
    /\ RunOver => \A i \in JobIds : cb_calls[i] = 1

\* C7 as stated, for a call that read the length of the present job list:
\* the counts get_progress returns add up to its total, and its fraction is
\* (completed + failed) / total, 1 when total is 0.
C7_ProgressCountsAddUp ==
  (progress # NoProgress /\ progress.total = Len(jobs)) =>
    /\ progress.pending + progress.processing + progress.completed
         + progress.failed = progress.total
    /\ progress.progress =
         IF progress.total = 0 THEN <<1, 1>>
         ELSE <<progress.completed + progress.failed, progress.total>>

(***************************************************************************)
(* Properties of FileIndexBuilder                                          *)
(***************************************************************************)
\* index_directory(dir, force_update=False) has returned, a run before it,
\* and no file changed since that run started
SecondRun ==
  /\ BuilderIdle /\ runs # <<>>
  /\ ~runs[1].force_update
  /\ runs[1].before >= 0 /\ runs[1].before = runs[1].end

\* C2 as stated: the second of two runs with no file change between them
\* returns indexed = 0 and skipped = total_files.
C2_SecondRunSkipsAll ==
  SecondRun =>
    /\ runs[1].result.indexed = 0
    /\ runs[1].result.skipped = runs[1].result.total_files

\* C2 amended: the second run skips exactly the files that held a record
\* with their current hash when it started, and returns indexed = 0 and
\* skipped = total_files when these are all the files of the tree.
C2_SecondRunSkipsFresh ==
  SecondRun =>
    /\ runs[1].result.skipped = runs[1].fresh
    /\ runs[1].fresh = runs[1].result.total_files =>
         runs[1].result.indexed = 0

\* C2 witness: a second run over the four files, all of them recorded
C2_Witness ==
  /\ SecondRun
  /\ runs[1].fresh = 4
  /\ runs[1].result = Result(4, 0, 0, 4)

\* C9 as stated, while every save of the index succeeded: between runs a
\* file has a record exactly when a job has extracted its content (the
\* builder never removes a record).
C9_RecordIffExtracted ==
  (BuilderIdle /\ faults = 0) =>
    \A f \in Files : (f \in DOMAIN files) <=> (f \in extracted)

(***************************************************************************)
(* Properties of FileIndex                                                 *)
(***************************************************************************)
NeedsUpdate(f) == file_needs_update(files, disk, f)

\* add_file has just returned, the file left alone while it ran
JustAdded ==
  /\ call.op = "add_file" /\ call.outcome = "returned"
  /\ disk[call.path] = added[call.path]

\* C1 as stated: file_needs_update is false right after add_file returns,
\* and for a recorded file that exists it is true exactly when the bytes
\* differ from the bytes the file had when it was added.
C1_TrueIffBytesDiffer ==
  /\ JustAdded => NeedsUpdate(call.path) = "false"
  /\ \A f \in DOMAIN files :
       (Quiet /\ disk[f].exists) =>
         ((NeedsUpdate(f) = "true") <=> (disk[f].bytes # added[f].bytes))

\* when the hash of file state now differs from the hash of file state then
HashDiffers(then, now) ==
  CASE then.readable /\ now.readable   -> md5(now.bytes) # md5(then.bytes)
    [] ~then.readable /\ ~now.readable -> now.mtime # then.mtime
    [] OTHER                           -> TRUE

\* C1 amended: file_needs_update is false right after add_file returns;
\* later, while the record remains and the file exists, it returns true
\* exactly when the file's hash differs from the stored one: for a file
\* readable at both times when the MD5 digest of its bytes differs, for a
\* file unreadable at both times when its modification time differs, and
\* always when its readability differs.
C1_TrueIffHashDiffers ==
  /\ JustAdded => NeedsUpdate(call.path) = "false"
  /\ \A f \in DOMAIN files :
       (Quiet /\ disk[f].exists) =>
         /\ NeedsUpdate(f) \in {"true", "false"}
         /\ (NeedsUpdate(f) = "true") <=> HashDiffers(added[f], disk[f])

\* C1 witnesses: a readable recorded file whose bytes were rewritten is
\* stale, and one whose bytes were written back is fresh again
C1_Witness ==
  \E f \in DOMAIN files :
    /\ Quiet /\ disk[f].exists /\ disk[f].readable /\ added[f].readable
    /\ disk[f].bytes = added[f].bytes
    /\ disk[f].mtime = 2
    /\ NeedsUpdate(f) = "false"

\* C8 as stated: between calls, every path listed in a directory entry has
\* a record in the files map.
C8_ListedPathsHaveRecords ==
  Quiet => \A d \in DOMAIN directories :
             \A i \in 1..Len(directories[d]) :
               directories[d][i] \in DOMAIN files

\* C10: after add_file or remove_file returns, the index file holds the
\* in-memory files map and directories map.
C10_PersistedEqualsMemory ==
  (call.op \in {"add_file", "remove_file"} /\ call.outcome = "returned")
    => persisted = Snapshot(files, directories)

\* C10 witness: remove_file returned and left one of two records
C10_Witness ==
  /\ call.op = "remove_file" /\ call.outcome = "returned"
  /\ Cardinality(DOMAIN files) = 1
  /\ \E d \in DOMAIN directories : directories[d] = <<>>
  /\ persisted.state = "ok"


\* a path is listed in the entry of its directory
Listed(f) ==
  /\ dirname(f) \in DOMAIN directories
  /\ Contains(directories[dirname(f)], f)

\* C11 as stated, through what every serial order of add_file and
\* remove_file calls that return keeps true of an index that started empty:
\* once the calls have returned, a path has a record exactly when its
\* directory entry lists it.
C11_SerialOutcome ==
  Quiet => \A f \in Files : (f \in DOMAIN files) <=> Listed(f)

\* C12 as stated: whatever happens to a write of the index file (it
\* completes, it raises, or the process dies in it, which leaves the same
\* file as a raise at that point), the file afterwards holds the complete
\* previous snapshot or the complete new one.
C12_SaveIsAtomic ==
  [][persisted' \in {persisted, Snapshot(files', directories')}]_vars

\* a new FileIndex was built right after a call of the previous one saved
\* the index and returned
Reloaded == call.op = "__init__" /\ prior.saved

C14_LoadNeverFails ==
  /\ (call.op = "__init__" /\ persisted.state # "ok") =>
       /\ call.outcome = "returned"
       /\ loaded = "snapshot"
       /\ files = _create_empty_index.files
       /\ directories = _create_empty_index.directories
  /\ loaded # "other"

\* index_directory(dir, force_update=False) has returned and no file
\* changed since it started
Rescanned ==
  /\ BuilderIdle /\ runs # <<>>
  /\ ~runs[1].force_update
  /\ runs[1].start = edits

\* C15 as stated: after a rescan that follows the deletion of a file, the
\* deleted file has no record and its directory entry does not list it.
C15_DeletedFileDropped ==
  Rescanned =>
    \A f \in Files : ~disk[f].exists => (f \notin DOMAIN files /\ ~Listed(f))

\* process_directory has handed every job to update_index and is about to
\* return to index_directory
RunComplete == ix.pc = "run" /\ pd.pc = "collect" /\ pd.collected = JobIds

\* the job that extracted the staged file of the name of f has completed
CompletedJobs(f) ==
  {i \in JobIds : jobs[i].filename = basename(f)
                  /\ jobs[i].status = "completed"}

\* C16 as stated: when the run is over, every file of the needs-update set
\* whose job completed has a record under its own path, with the type and
\* the metadata of the job's result.
C16_CompletedFilesRecorded ==
  RunComplete =>
    \A k \in 1..Len(ix.files_to_index) :
      LET f == ix.files_to_index[k] IN
      \A i \in CompletedJobs(f) :
        /\ f \in DOMAIN files
        /\ files[f].type = jobs[i].result.type
        /\ files[f].metadata = Get(jobs[i].result, "metadata", <<>>)

\* the files under the directory that index_directory is to index: all of
\* them when forced, else those file_needs_update reports
NeedsUpdateSet(force_update) ==
  {f \in Files : /\ disk[f].exists
                 /\ \/ force_update
                    \/ file_needs_update(files, disk, f) = "true"}

\* C17: index_directory counts as skipped the enumerated files outside the
\* needs-update set (none when forced), submits only files of that set to
\* the BatchProcessor, and returns that count with the number enumerated.
C17_SkippedCount ==
  [][/\ (ix.pc = "idle" /\ ix'.pc = "run") =>
          LET set == NeedsUpdateSet(ix'.force_update) IN
          /\ ix'.skipped_count = Len(ix'.file_paths) - Cardinality(set)
          /\ ix'.force_update => ix'.skipped_count = 0
          /\ \A i \in 1..Len(jobs') : temp'[jobs'[i].filename].target \in set
     /\ (ix.pc = "idle" /\ ix'.pc = "idle" /\ runs' # runs) =>
          /\ NeedsUpdateSet(runs'[1].force_update) = {}
          /\ runs'[1].result.skipped = runs'[1].result.total_files
          /\ jobs' = jobs
     /\ (ix.pc = "run" /\ ix'.pc = "idle") =>
          /\ runs'[1].result.total_files = Len(ix.file_paths)
          /\ runs'[1].result.skipped = ix.skipped_count]_vars

\* C17 witness: a run that was not forced returned after it skipped two
\* files and indexed a recorded file whose content had changed
C17_Witness ==
  /\ BuilderIdle /\ runs # <<>>
  /\ ~runs[1].force_update
  /\ runs[1].start > 0
  /\ runs[1].result.total_files = 4
  /\ runs[1].result.skipped = 2
  /\ runs[1].fresh = 2
  /\ runs[1].result.indexed >= 1

\* C18 as stated, for the extraction errors: when the run is over, every
\* job whose file could not be read or parsed is failed and carries an
\* error message.
C18_ErrorsFailTheJob ==
  (RunComplete /\ faults = 0) =>
    \A i \in JobIds :
      ExtractionFails(i) => (jobs[i].status = "failed" /\ jobs[i].error # "")

\* the files of a needs-update set that the staging directory does not hold
Unstaged(tmp, files_to_index) ==
  {k \in 1..Len(files_to_index) :
     LET f == files_to_index[k] IN
     \/ basename(f) \notin DOMAIN tmp
     \/ tmp[basename(f)].target # f}

C20_SaveFailurePropagates ==
  [][(ix.pc = "run" /\ ix'.pc = "idle") =>
       \A i \in JobIds : jobs[i].error # "callback error"]_vars

\* C21 as stated: index_directory called on a directory that does not
\* exist never returns a result; the run that returned last is never one
\* on the missing directory.
C21_MissingDirectoryPropagates ==
  runs # <<>> => runs[1].directory # NoDir

(***************************************************************************)
(* Properties of KeywordRetriever                                          *)
(***************************************************************************)
\* the tokens of the k-th stored document
DocTokens(k) == _tokenize(documents[k].content)

\* the number of times the token occurs in the k-th stored document
TermFrequency(token, k) ==
  Cardinality({i \in 1..Len(DocTokens(k)) : DocTokens(k)[i] = token})

\* the stored documents that hold the token
DocumentsContaining(token) ==
  {k \in 1..Len(documents) : TermFrequency(token, k) > 0}

\* the k-th stored document holds a token of the query
Matches(k, query_tokens) ==
  \E i \in 1..Len(query_tokens) : TermFrequency(query_tokens[i], k) > 0

\* the sum, over the query tokens the k-th stored document holds, of
\* tf(token, doc) * ln(totalDocuments / documentsContainingToken)
RECURSIVE Score(_, _)
Score(k, query_tokens) ==
  IF query_tokens = <<>> THEN 0
  ELSE LET token == Head(query_tokens) IN
       (IF TermFrequency(token, k) > 0
        THEN TermFrequency(token, k)
               * math_log(Len(documents),
                          Cardinality(DocumentsContaining(token)))
        ELSE 0)
       + Score(k, Tail(query_tokens))

\* a retrieve call has returned its list for the present corpus
Retrieved == retrieved.op = "retrieve" /\ retrieved.outcome = "returned"

\* no two stored documents have the same id
UniqueIds ==
  \A j, k \in 1..Len(documents) : documents[j].id = documents[k].id => j = k

\* C22 as stated: every document retrieve returns holds at least one token
\* of the tokenized query.
C22_OnlyMatchingDocuments ==
  Retrieved =>
    \A i \in 1..Len(retrieved.results) :
       Matches(retrieved.results[i].at, _tokenize(retrieved.query))

\* C23 as stated: the documents come in non-increasing order of score, the
\* score being the sum over the matching query tokens of tf * ln(N / df);
\* and on the corpus {1: 'alpha beta', 2: 'beta gamma', 3: 'alpha alpha
\* gamma'} the query 'alpha' gives document 3, then document 1, and not
\* document 2.
C23_RankedByScore ==
  Retrieved =>
    LET res == retrieved.results
        q   == _tokenize(retrieved.query)
    IN
    /\ \A i \in 1..Len(res) : res[i].relevance_score = Score(res[i].at, q)
    /\ \A i, j \in 1..Len(res) :
         i < j => Score(res[i].at, q) >= Score(res[j].at, q)
    /\ ( /\ [k \in 1..Len(documents) |->
               <<documents[k].id, documents[k].content>>]
            = << <<1, <<"alpha", " ", "beta">> >>,
                 <<2, <<"beta", " ", "gamma">> >>,
                 <<3, <<"alpha", " ", "alpha", " ", "gamma">> >> >>
         /\ retrieved.query = <<"alpha">> /\ retrieved.top_k = 3 )
       => [i \in 1..Len(res) |-> res[i].id] = <<3, 1>>

\* C24 as stated, for corpora whose ids are all different: two returned
\* documents of equal score come in the order in which they were added.
C24_TiesInInsertionOrder ==
  (Retrieved /\ UniqueIds) =>
    \A i, j \in 1..Len(retrieved.results) :
       ( /\ i < j
         /\ retrieved.results[i].relevance_score
              = retrieved.results[j].relevance_score )
       => retrieved.results[i].at < retrieved.results[j].at

\* C25 as stated: at most top_k documents come back, each with its score,
\* and no matching document left out has a higher score than one returned;
\* fewer than top_k come back only when no other document matches.
C25_TopK ==
  Retrieved =>
    LET res == retrieved.results
        q   == _tokenize(retrieved.query)
        returned == {res[i].at : i \in 1..Len(res)}
        matching == {k \in 1..Len(documents) : Matches(k, q)}
    IN
    /\ Len(res) <= retrieved.top_k
    /\ \A i \in 1..Len(res) : res[i].relevance_score = Score(res[i].at, q)
    /\ returned \subseteq matching
    /\ \A k \in matching \ returned, i \in 1..Len(res) :
         Score(k, q) <= Score(res[i].at, q)
    /\ Len(res) < retrieved.top_k => returned = matching

\* C26: retrieve on a retriever without documents, or with the empty query
\* string, or with a query none of whose tokens is in a document, returns
\* the empty list and does not raise.
C26_NothingToFind ==
  LET q == _tokenize(retrieved.query) IN
  ( /\ retrieved.op = "retrieve"
    /\ \/ documents = <<>>
       \/ q = <<>>
       \/ \A k \in 1..Len(documents) : ~Matches(k, q) )
  => /\ retrieved.outcome = "returned"
     /\ retrieved.results = <<>>

\* C26 witness: a query for a word no stored document holds came back
\* empty from a retriever that holds documents
C26_Witness ==
  /\ Retrieved
  /\ Len(documents) = 2
  /\ retrieved.query = <<"delta">>
  /\ retrieved.results = <<>>

\* the sum of the term frequencies of the query tokens the k-th stored
\* document holds
RECURSIVE PureTermFrequency(_, _)
PureTermFrequency(k, query_tokens) ==
  IF query_tokens = <<>> THEN 0
  ELSE TermFrequency(Head(query_tokens), k)
       + PureTermFrequency(k, Tail(query_tokens))

\* C27 as stated: in a corpus of one document the score of that document
\* for a matching query is the sum of the term frequencies of the matching
\* query tokens.
C27_SingleDocumentScoreIsTF ==
  (Retrieved /\ Len(documents) = 1) =>
    \A i \in 1..Len(retrieved.results) :
       retrieved.results[i].relevance_score
         = PureTermFrequency(retrieved.results[i].at,
                             _tokenize(retrieved.query))

\* C27 amended: in a corpus of one document, retrieve returns that document
\* for every matching query, with the score 0 whatever the term
\* frequencies are (each token contributes tf * ln(1/1)).
C27_SingleDocumentScoreIsZero ==
  (Retrieved /\ Len(documents) = 1) =>
    IF Matches(1, _tokenize(retrieved.query))
    THEN /\ Len(retrieved.results) = 1
         /\ retrieved.results[1].at = 1
         /\ retrieved.results[1].relevance_score = 0
    ELSE retrieved.results = <<>>

\* C27 witness: the one document holds the query token twice and came back
C27_Witness ==
  /\ Retrieved
  /\ Len(documents) = 1
  /\ retrieved.query = <<"alpha">>
  /\ TermFrequency("alpha", 1) = 2
  /\ Len(retrieved.results) = 1

\* C30 as stated: callers never give the same id twice, and a document
\* that got its id from add_document shares it with no other stored
\* document.
C30_AssignedIdsAreNew ==
  \A j, k \in 1..Len(documents) :
     (j # k /\ ~documents[j].given) => documents[j].id # documents[k].id

(***************************************************************************)
(* Properties of AIAssistant                                               *)
(***************************************************************************)
\* the hits counted for the window the snippet was chosen for: the hit in
\* its middle and the hits that start inside it
CountedHits ==
  LET r  == snippet.result
      tp == r.term_positions
  IN  {j \in 1..Len(tp) :
         \/ j = r.hit
         \/ /\ WindowStart(tp[r.hit], snippet.context_size) <= tp[j].pos
            /\ tp[j].pos < WindowEnd(snippet.content, tp[r.hit],
                                     snippet.context_size)}

\* C29 as stated: the substring _find_relevant_snippet returns holds every
\* occurrence of a query term that was counted for the best window.
C29_SnippetHoldsCountedHits ==
  (snippet.called /\ snippet.result.hit # 0) =>
    /\ Cardinality(CountedHits) = snippet.result.best_score
    /\ \A j \in CountedHits :
         LET hit == snippet.result.term_positions[j] IN
         /\ snippet.result.start <= hit.pos
         /\ hit.pos + hit.length <= snippet.result.end

\* C28 as stated: no retrieve call runs while a refresh is between
\* clearing the retriever and the end of the repopulation, and none raises.
C28_NoQueryDuringRefresh ==
  retrieved.op = "retrieve" =>
    /\ retrieved.during \in {"idle", "clear_documents"}
    /\ retrieved.outcome = "returned"


(***************************************************************************)
(* Properties of the worker pool, of remove_file and of the retriever's    *)
(* inverted index                                                          *)
(***************************************************************************)
\* the jobs a pool thread is running
HeldJobs == {pd.workers[w] : w \in DOMAIN pd.workers} \ {0}

\* C31: during a process_directory run at most max_workers jobs are in
\* status 'processing' at once, and every such job is run by one thread of
\* the pool, which runs no other job at that time
C31_PoolBoundsProcessing ==
  pd.pc # "idle" =>
    /\ Count(jobs, "processing") <= max_workers
    /\ \A i \in JobIds :
         jobs[i].status = "processing" =>
           Cardinality({w \in DOMAIN pd.workers : pd.workers[w] = i}) = 1

\* the pool is saturated: every thread runs a job and a job still waits
C31_Witness ==
  /\ pd.pc = "collect"
  /\ Count(jobs, "processing") = max_workers
  /\ Cardinality(HeldJobs) = max_workers
  /\ Count(jobs, "pending") > 0

\* the paths a directory entry lists, in a given directories map
Members(ds, d) == IF d \in DOMAIN ds THEN {ds[d][i] : i \in 1..Len(ds[d])}
                  ELSE {}

\* C32: remove_file(path) deletes the record of path and takes path out of
\* the entry of its directory, changes no other record and no other
\* membership, and changes nothing at all when path has no record (stated
\* for the calls that return)
C32_RemoveFileFrame ==
  [][call'.op = "remove_file" /\ call'.outcome = "returned" =>
       LET p == call'.path IN
       /\ p \notin DOMAIN files'
       /\ p \notin Members(directories', dirname(p))
       /\ \A q \in DOMAIN files \ {p} :
            q \in DOMAIN files' /\ files'[q] = files[q]
       /\ DOMAIN files' \subseteq DOMAIN files
       /\ \A d \in DOMAIN directories \cup DOMAIN directories' :
            Members(directories', d) \ {p} = Members(directories, d) \ {p}
       /\ p \notin DOMAIN files =>
            \A d \in DOMAIN directories \cup DOMAIN directories' :
              Members(directories', d) = Members(directories, d)]_vars


\* C37: every result of index_directory has
\* indexed + errors + skipped = total_files (stated for the behaviours in
\* which every write of the index file succeeds)
C37_CountsAddUp ==
  faults = 0 =>
  \A k \in 1..Len(runs) :
    LET result == runs[k].result IN
    result.indexed + result.errors + result.skipped = result.total_files

\* C38: no step of a process_directory run changes the base_directory of
\* the handlers the BatchProcessor was given
C38_BaseDirectoryKept == [][base_directory' = base_directory]_vars

\* the number of times the file list of the path's directory holds the path
TimesListed(p) ==
  IF dirname(p) \in DOMAIN directories
  THEN Cardinality({i \in 1..Len(directories[dirname(p)]) :
                      directories[dirname(p)][i] = p})
  ELSE 0

\* every record's path is listed exactly once by the entry of its directory
RecordsListedOnce == \A p \in DOMAIN files : TimesListed(p) = 1

\* C39: between the calls, every record's path is listed exactly once by
\* the entry of its directory, and the per-directory counts of
\* get_index_summary add up to its total_files
C39_SummaryCountsAgree ==
  Quiet =>
    /\ RecordsListedOnce
    /\ LET summary == get_index_summary(files, directories)
       IN  SumValues(summary.directories) = summary.total_files

\* the count the index keeps for a token and a document id (0: none)
Posting(token, doc_id) ==
  IF token \notin DOMAIN index THEN 0
  ELSE LET hits == SelectSeq(index[token], LAMBDA e : e.doc_id = doc_id)
       IN  IF hits = <<>> THEN 0 ELSE hits[1].count

\* the tokens the index or a stored document knows
Tokens ==
  DOMAIN index \cup
  UNION {{DocTokens(k)[i] : i \in 1..Len(DocTokens(k))} :
           k \in 1..Len(documents)}

\* C33: for every token and every stored document, index[token][id of the
\* document] is the number of occurrences of the token in the tokenized
\* content of that document (stated for documents that all came with an id
\* of the caller's)
C33_IndexCountsOccurrences ==
  (\A k \in 1..Len(documents) : documents[k].given) =>
    \A k \in 1..Len(documents) : \A token \in Tokens :
      Posting(token, documents[k].id) = TermFrequency(token, k)

\* C34: KeywordRetriever(documents) stores each document of the list once:
\* while the constructor runs and after it, self.documents holds no more
\* entries than the list had
C34_EachDocumentStoredOnce ==
  ctor.pc # "idle" => Len(documents) <= ctor.given

\* C35: a chunk_document call with 0 <= overlap < chunk_size returns
C35_ChunkingTerminates ==
  (chunking.pc = "loop") ~> (chunking.pc = "returned")

\* C36: while the index_directory run of the refresh thread is executing,
\* no second run is under way: the upload thread has not emptied and
\* refilled the staging directory for a run of its own
C36_OneRunAtATime ==
  ~ (indexing.pc = "indexing" /\ upload.pc = "staged")
====
